---- MODULE Spec2Model ----
(***************************************************************************)
(* Model of the astro-bot dashboard front end: the Remote Data Gateway     *)
(* (src/lib/api.ts), the SWR fetcher, the polling subscriptions of the     *)
(* Paper Trading page and its manual-trade handlers, the Header's user     *)
(* selector, and the derived metrics of the Positions / Paper pages.       *)
(***************************************************************************)
EXTENDS Integers, Sequences, FiniteSets, TLC

(* ------------------------------ bounds --------------------------------- *)
\* total number of network requests (polls + writes) issued in one behaviour
MaxReq == 2
\* gateway write calls (open / close) that may be in flight together
MaxCalls == 1
\* largest number of rows the backend returns for the positions endpoint
MaxRows == 1
\* longest trades collection a poll delivers to the metrics
MaxTrades == 3
\* largest paper_trades count of an equity snapshot
MaxPaperTrades == 2
\* signals in one poll of the Predictions page
MaxSignals == 2
\* day records in one calendar response
MaxDays == 2
MaxRevisions == 2
MaxOpen == 2
MaxMutates == 2

(* ------------------------------ constants ------------------------------ *)
Users == {"default", "u2"}
Endpoints == {"positions", "equity", "trades"}
\* endpoints whose cached value the pages treat as an array (.map/.filter)
ArrayEndpoints == {"positions", "trades"}
Keys == Users \X Endpoints

Statuses == {200, 500}
\* what the network can deliver for one request: an HTTP response with a
\* status and a body that is JSON or not, or no response at all
Responses == [net : {"response"}, status : Statuses, json : BOOLEAN]
             \cup {[net |-> "failed", status |-> 0, json |-> FALSE]}

Ok(resp) == resp.status >= 200 /\ resp.status <= 299

\* payload sizes the backend may answer with on a 2xx (rows of an array)
Payloads(ep) == IF ep = "positions" THEN 0..MaxRows ELSE {0}
\* user lists the backend may answer /api/users with
UserLists == {{"default"}, Users}

NoData == [shape |-> "none", rows |-> 0, uid |-> "", req |-> 0]

(* ------------------------- Remote Data Gateway ------------------------- *)
\* how a gateway promise settles: rejected with an error (for an API error the
\* message carries the status and the path), or fulfilled with the parsed body
Rejected(err, status, path) ==
    [settled |-> "rejected", err |-> err, status |-> status, path |-> path, value |-> {}]
Fulfilled(body) ==
    [settled |-> "fulfilled", err |-> "", status |-> 0, path |-> <<>>, value |-> body]

\* a gateway function that returns the body whatever the status (as fetcher does)
getUnchecked(path, resp, body) ==
    IF resp.net = "failed" THEN Rejected("TypeError", 0, <<>>)
    ELSE IF ~resp.json THEN Rejected("SyntaxError", 0, <<>>)
    ELSE Fulfilled(body)

\* get: await fetch; if (!res.ok) throw Error(`API error ${status}: ${path}`);
\* return res.json()
get(path, resp, body) ==
    IF resp.net = "failed" THEN Rejected("TypeError", 0, <<>>)
    ELSE IF ~Ok(resp) THEN Rejected("API error", resp.status, path)
    ELSE IF ~resp.json THEN Rejected("SyntaxError", 0, <<>>)
    ELSE Fulfilled(body)

post(path, resp, body) ==
    IF resp.net = "failed" THEN Rejected("TypeError", 0, <<>>)
    ELSE IF ~Ok(resp) THEN Rejected("API error", resp.status, path)
    ELSE IF ~resp.json THEN Rejected("SyntaxError", 0, <<>>)
    ELSE Fulfilled(body)

del(path, resp, body) ==
    IF resp.net = "failed" THEN Rejected("TypeError", 0, <<>>)
    ELSE IF ~Ok(resp) THEN Rejected("API error", resp.status, path)
    ELSE IF ~resp.json THEN Rejected("SyntaxError", 0, <<>>)
    ELSE Fulfilled(body)

GwMethods == {"get", "post", "del"}
GatewayFn(method, path, resp, body) ==
    CASE method = "get"  -> get(path, resp, body)
      [] method = "post" -> post(path, resp, body)
      [] method = "del"  -> del(path, resp, body)

\* the gateway function behind each operation of `api`
ApiCall(op, path, resp, body) ==
    CASE op = "users" -> GatewayFn("get", path, resp, body)
      [] op = "open"  -> GatewayFn("post", path, resp, body)
      [] op = "close" -> GatewayFn("del", path, resp, body)

\* paths the gateway is called with
GwPaths == {<<"/api/users">>, <<"/api/ticker">>, <<"/api/paper/trade">>,
            <<"/api/paper/trade", "default", 0>>}
GwBodies == {{"ok"}, {"default"}}
NoResponse == [net |-> "none", status |-> 0, json |-> FALSE]
NoOutcome == [settled |-> "none", err |-> "", status |-> 0, path |-> <<>>, value |-> {}]
GwIdle == [phase |-> "idle", method |-> "", path |-> <<>>, sent |-> 0,
           resp |-> NoResponse, body |-> {}, outcome |-> NoOutcome]

\* JSON bodies the backend may answer a gateway call with
GatewayBodies(op) == IF op = "users" THEN UserLists ELSE {{"ok"}}

(* ------------------------------ SWR fetcher ---------------------------- *)
\* a fetcher that rejects on !r.ok, as the gateway does
fetcherChecked(resp) ==
    IF resp.net = "failed" \/ ~resp.json \/ ~Ok(resp) THEN "rejected" ELSE "fulfilled"

\* fetch(url).then(r => r.json()): the status is never looked at
fetcher(resp) ==
    IF resp.net = "failed" \/ ~resp.json THEN "rejected" ELSE "fulfilled"

\* the value r.json() yields: the payload on a 2xx, the error document
\* ({"detail": ...}, not an array) otherwise
JsonOf(resp, rows, key, id) ==
    IF Ok(resp) THEN [shape |-> "payload", rows |-> rows, uid |-> key[1], req |-> id]
                ELSE [shape |-> "errbody", rows |-> 0, uid |-> key[1], req |-> id]

(* -------------------- Paper Trading page: form values ------------------- *)
Sides == {"BUY", "SELL"}
FieldKeys == {"entry", "sl", "tp", "notional"}
\* what the user may type into each <input type="number">
FieldVals(key) ==
    CASE key = "entry"    -> {"", "100"}
      [] key = "sl"       -> {"", "95", "100", "105"}
      [] key = "tp"       -> {"", "110"}
      [] key = "notional" -> {"", "0", "300"}

\* what the user may type to see the risk preview: zero and negative numbers too
PreviewVals(key) ==
    CASE key = "entry"    -> {"", "0", "-100", "100"}
      [] key = "sl"       -> {"", "95", "105"}
      [] key = "tp"       -> {"", "0", "110"}
      [] key = "notional" -> {"", "300"}

\* the values of a trade that passes validation
ValidVals(key) ==
    CASE key = "entry"    -> {"100"}
      [] key = "sl"       -> {"95"}
      [] key = "tp"       -> {"110"}
      [] key = "notional" -> {"300"}

DEFAULT_FORM == [side |-> "BUY", entry |-> "", sl |-> "", tp |-> "", notional |-> ""]

\* parseFloat on the strings above; the empty string parses to NaN
NaN == [nan |-> TRUE, v |-> 0]
Num(n) == [nan |-> FALSE, v |-> n]
parseFloat(s) ==
    CASE s = ""    -> NaN
      [] s = "0"   -> Num(0)
      [] s = "-100" -> Num(-100)
      [] s = "95"  -> Num(95)
      [] s = "100" -> Num(100)
      [] s = "105" -> Num(105)
      [] s = "110" -> Num(110)
      [] s = "300" -> Num(300)

\* !x for a number: NaN and 0 are falsy
Falsy(x) == x.nan \/ x.v = 0
\* a >= b, a <= b on numbers: any comparison with NaN is false
Ge(a, b) == ~a.nan /\ ~b.nan /\ a.v >= b.v
Le(a, b) == ~a.nan /\ ~b.nan /\ a.v <= b.v

(* ------------------------ Derived Metrics Engine ------------------------ *)
\* an optional value: null / undefined, or a value
Null == <<>>
Some(x) == <<x>>
\* x ?? d
Coalesce(x, d) == IF x = Null THEN d ELSE x[1]

PnlValues == {Null, Some(-20), Some(0), Some(50)}
\* a closed trade, reduced to the field the metrics read
Trades == [pnl : PnlValues]
TradeLists == UNION {[1..n -> Trades] : n \in 0..MaxTrades}
\* an equity snapshot: undefined before the first poll, paper_trades optional
EquityStates == {Null} \cup {Some([paper_trades |-> c]) :
                              c \in {Null} \cup {Some(n) : n \in 0..MaxPaperTrades}}

\* a number kept exact as num / den (den > 0)
Ratio(num, den) == [num |-> num, den |-> den]
\* x.toFixed(1) of a non-negative x, in tenths: the nearest tenth, ties up
ToFixed1(x) == (20 * x.num + x.den) \div (2 * x.den)

RECURSIVE Reduce(_, _, _)
\* trades.reduce((s, t) => s + (t.pnl ?? 0), s0) from index i on
Reduce(trades, i, s) ==
    IF i > Len(trades) THEN s
    ELSE Reduce(trades, i + 1, s + Coalesce(trades[i].pnl, 0))

\* a sum that leaves the losing trades out
totalPnlWinsOnly(trades) ==
    Reduce(SelectSeq(trades, LAMBDA t : Coalesce(t.pnl, 0) > 0), 1, 0)

\* Positions page: totalPnl
totalPnl(trades) == Reduce(trades, 1, 0)

\* Positions page: wins = closedTrades.filter(t => (t.pnl ?? 0) > 0)
wins(trades) == SelectSeq(trades, LAMBDA t : Coalesce(t.pnl, 0) > 0)

\* Positions page: winRate
winRate(trades) ==
    IF Len(trades) # 0 THEN Ratio(Len(wins(trades)) * 100, Len(trades)) ELSE Ratio(0, 1)

\* Paper page: paperTrades = equity?.paper_trades ?? trades.length
paperTrades(eq, trades) ==
    IF eq = Null THEN Len(trades) ELSE Coalesce(eq[1].paper_trades, Len(trades))

\* Paper page: winRate, the text it shows, in tenths of a percent
paperWinRate(eq, trades) ==
    IF paperTrades(eq, trades) > 0
    THEN ToFixed1(Ratio(Len(wins(trades)) * 100, paperTrades(eq, trades)))
    ELSE 0

\* the summary strip of the Positions page
RenderPositions(trades) ==
    [totalPnl |-> totalPnl(trades), winRate |-> winRate(trades),
     winRateText |-> ToFixed1(winRate(trades))]

\* the stats row of the Paper page
RenderPaper(eq, trades) ==
    [paperTrades |-> paperTrades(eq, trades), winRateText |-> paperWinRate(eq, trades)]

(* --------------------- Predictions page: levels table ------------------- *)
\* exact arithmetic on numbers kept as num / den (den # 0, either sign)
Div(a, b) == Ratio(a, b)
Times(r, k) == Ratio(r.num * k, r.den)
RatEq(a, b) == a.num * b.den = b.num * a.den
Positive(r) == r.num * r.den > 0
Abs(n) == IF n < 0 THEN -n ELSE n

\* a percentage taken relative to the level instead of the current price
pctOfLevel(from, to) ==
    IF from = 0 \/ to = 0 THEN Ratio(0, 1)
    ELSE Times(Div(to - from, to), 100)

\* pct(from, to)
pct(from, to) ==
    IF from = 0 THEN Ratio(0, 1)
    ELSE Times(Div(to - from, from), 100)

\* symbol.split("/")[0]
CoinOf(symbol) ==
    CASE symbol = "BTC/USDT" -> "BTC"
      [] symbol = "ETH/USDT" -> "ETH"
      [] OTHER               -> symbol

\* getCurrentPrice(symbol): the ticker's price of the coin, null when the
\* ticker has no finite number for it
getCurrentPrice(tk, symbol) ==
    IF CoinOf(symbol) \in DOMAIN tk THEN tk[CoinOf(symbol)] ELSE Null

\* a filter that forgets to hide HOLD
predictionsKeepHold(sigs) ==
    SelectSeq(sigs, LAMBDA s :
        /\ (s.entry_price # Null \/ s.stop_loss # Null \/ s.target # Null)
        /\ s.symbol # Null /\ s.symbol # Some("")
        /\ s.action # "NO_TRADE")

\* predictions = signals.filter(...): `s.symbol &&` is a truthiness test, so
\* null and the empty string both fail it
predictionsFilter(sigs) ==
    SelectSeq(sigs, LAMBDA s :
        /\ (s.entry_price # Null \/ s.stop_loss # Null \/ s.target # Null)
        /\ s.symbol # Null /\ s.symbol # Some("")
        /\ s.action # "NO_TRADE"
        /\ s.action # "HOLD")

\* one row of the levels table: current, pctToTp, pctToSl
LevelRow(tk, s) ==
    LET tp      == s.target
        sl      == s.stop_loss
        current == getCurrentPrice(tk, Coalesce(s.symbol, ""))
    IN  [signal  |-> s,
         current |-> current,
         pctToTp |-> IF current # Null /\ tp # Null THEN Some(pct(current[1], tp[1])) ELSE Null,
         pctToSl |-> IF current # Null /\ sl # Null THEN Some(pct(current[1], sl[1])) ELSE Null]

\* the table body: predictions.slice(0, 80).map(...)
LevelRows(tk, sigs) ==
    LET shown == predictionsFilter(sigs)
    IN  [i \in 1..Len(shown) |-> LevelRow(tk, shown[i])]

\* the signals a poll may deliver to the filter
SignalPool ==
    {[symbol |-> Some("BTC/USDT"), action |-> "STRONG_BUY", entry_price |-> Some(100), stop_loss |-> Null, target |-> Null],
     [symbol |-> Some("BTC/USDT"), action |-> "WEAK_BUY", entry_price |-> Null, stop_loss |-> Some(95), target |-> Null],
     [symbol |-> Some("BTC/USDT"), action |-> "WEAK_SELL", entry_price |-> Null, stop_loss |-> Null, target |-> Some(110)],
     [symbol |-> Some("ETH/USDT"), action |-> "STRONG_SELL", entry_price |-> Some(100), stop_loss |-> Some(105), target |-> Some(90)],
     [symbol |-> Some("BTC/USDT"), action |-> "STRONG_BUY", entry_price |-> Null, stop_loss |-> Null, target |-> Null],
     [symbol |-> Some("BTC/USDT"), action |-> "NO_TRADE", entry_price |-> Some(100), stop_loss |-> Null, target |-> Null],
     [symbol |-> Some("BTC/USDT"), action |-> "HOLD", entry_price |-> Some(100), stop_loss |-> Some(95), target |-> Some(110)],
     [symbol |-> Null, action |-> "STRONG_BUY", entry_price |-> Some(100), stop_loss |-> Null, target |-> Null],
     [symbol |-> Some(""), action |-> "STRONG_BUY", entry_price |-> Some(100), stop_loss |-> Null, target |-> Null],
     [symbol |-> Some("BTC/USDT"), action |-> "COLLECTING_DATA", entry_price |-> Some(100), stop_loss |-> Null, target |-> Null]}
SignalLists == UNION {[1..n -> SignalPool] : n \in 0..MaxSignals}

\* prices and levels of the table: zero, negative and positive numbers
Levels == {-110, 0, 90, 100, 110}
Prices == {Null, Some(-100), Some(0), Some(100)}
\* a one-row poll whose signal carries a target and a stop
LevelSignals ==
    {<<[symbol |-> Some("BTC/USDT"), action |-> "STRONG_BUY", entry_price |-> Null,
        stop_loss |-> sl, target |-> tp]>> :
        sl \in {Null} \cup {Some(l) : l \in Levels}, tp \in {Null} \cup {Some(l) : l \in Levels}}
\* the ticker map; a coin the backend left out reads as undefined
Tickers == {[BTC |-> p, ETH |-> Null] : p \in Prices}
NoTicker == [BTC |-> Null, ETH |-> Null]

(* ------------------ Paper page: risk and reward amounts ----------------- *)
\* parseFloat(s) || 0
OrZero(x) == IF Falsy(x) THEN 0 ELSE x.v

\* a card that takes the signed distance instead of Math.abs
PositionCardSigned(p) ==
    LET entry    == Coalesce(p.entry, 0)
        sl       == Coalesce(p.sl, 0)
        tp       == Coalesce(p.tp, 0)
        notional == Coalesce(p.notional, 0)
    IN  [risk   |-> IF entry > 0 THEN Times(Div(entry - sl, entry), notional) ELSE Ratio(0, 1),
         reward |-> IF entry > 0 THEN Times(Div(entry - tp, entry), notional) ELSE Ratio(0, 1)]

\* an open-position card: risk and reward
PositionCard(p) ==
    LET entry    == Coalesce(p.entry, 0)
        sl       == Coalesce(p.sl, 0)
        tp       == Coalesce(p.tp, 0)
        notional == Coalesce(p.notional, 0)
    IN  [risk   |-> IF entry > 0 THEN Times(Div(Abs(entry - sl), entry), notional) ELSE Ratio(0, 1),
         reward |-> IF entry > 0 THEN Times(Div(Abs(entry - tp), entry), notional) ELSE Ratio(0, 1)]

\* the risk preview under the form: rendered only when entry, sl and notional
\* are non-empty strings; the profit line only when tp is non-empty
RiskPreview(f) ==
    LET fe == OrZero(parseFloat(f.entry))
        fs == OrZero(parseFloat(f.sl))
        fn == OrZero(parseFloat(f.notional))
        ft == OrZero(parseFloat(f.tp))
        stopDist == Abs(fe - fs)
    IN  [shown       |-> f.entry # "" /\ f.sl # "" /\ f.notional # "",
         stopDist    |-> stopDist,
         riskAmt     |-> IF fe > 0 THEN Times(Div(stopDist, fe), fn) ELSE Ratio(0, 1),
         profitAmt   |-> IF fe > 0 /\ ft > 0 THEN Times(Div(Abs(fe - ft), fe), fn) ELSE Ratio(0, 1),
         profitShown |-> f.tp # ""]

\* the open positions a poll may deliver: at most one card, any field missing
PositionPool ==
    [entry : {Null, Some(-100), Some(0), Some(100)}, sl : {Null, Some(95), Some(105)},
     tp : {Null, Some(110)}, notional : {Some(300)}]
PositionLists == {<<>>} \cup {<<p>> : p \in PositionPool}

(* -------------------- Paper trades held by the backend ------------------ *)
\* the positions the bot or the user may have open; a Position has no id, so
\* they are told apart by their fields
BackendPool ==
    {[entry |-> Some(100), sl |-> Some(95),  tp |-> Some(110), notional |-> Some(300)],
     [entry |-> Some(100), sl |-> Some(105), tp |-> Some(110), notional |-> Some(300)],
     [entry |-> Some(100), sl |-> Some(95),  tp |-> Null,      notional |-> Some(300)]}

NoClose == [wanted |-> Null, removed |-> Null]

\* DELETE /api/paper/trade/{user}/{index} at the backend: the position at
\* that index of its present list goes, none when the index is out of range
DeleteAt(list, index) ==
    IF index < Len(list)
    THEN SubSeq(list, 1, index) \o SubSeq(list, index + 2, Len(list))
    ELSE list

(* ------------------------ Admin page: registration --------------------- *)
\* const EMPTY: text is kept as the sequence of its UTF-16 code units
EMPTY == [username |-> <<>>, display_name |-> <<>>, wallet |-> <<>>, private_key |-> <<>>]

RegisterKeys == {"username", "display_name", "wallet", "private_key"}

\* what may be typed into a field: nothing, or "Al B" / "al" / "0" / "1"
RegisterVals(key) ==
    CASE key = "display_name" -> {<<>>, <<65, 108, 32, 66>>}
      [] key = "username"     -> {<<>>, <<97, 108>>}
      [] key = "wallet"       -> {<<>>, <<48>>}
      [] key = "private_key"  -> {<<>>, <<49>>}

\* display_name.toLowerCase().replace(/[^a-z0-9]/g, "-").slice(0, 20)
Slug(name) ==
    LET lower(c) == IF c >= 65 /\ c <= 90 THEN c + 32 ELSE c
        keep(c) == (c >= 97 /\ c <= 122) \/ (c >= 48 /\ c <= 57)
        n == IF Len(name) < 20 THEN Len(name) ELSE 20
    IN  [i \in 1..n |-> IF keep(lower(name[i])) THEN lower(name[i]) ELSE 45]

\* the effect on [form.display_name]: fill an empty username from the name
AutoFill(f) ==
    IF f.display_name # <<>> /\ f.username = <<>>
    THEN [f EXCEPT !.username = Slug(f.display_name)]
    ELSE f

\* the JSON objects the register endpoint may answer with
RegisterBodies ==
    {[detail |-> Null, log |-> Null],
     [detail |-> Null, log |-> Some("provisioned")],
     [detail |-> Some("username taken"), log |-> Null]}

(* --------------------------- provision_user.sh -------------------------- *)
\* a line of an .env file: what stands before the key, the key, the value.
\* Only a line that begins with KEY= is matched by the pattern ^KEY=.*$
EnvLine(prefix, key, value) == [prefix |-> prefix, key |-> key, value |-> value]

\* the .env files the bot template may hold (blank lines left out)
TemplateEnvs ==
    {<<EnvLine("", "LOG_LEVEL", "info")>>,
     <<EnvLine("", "PAPER_TRADING", "false"), EnvLine("", "HYPERLIQUID_WALLET_ADDRESS", "0xT")>>,
     <<EnvLine("", "PAPER_TRADING", "true")>>,
     <<EnvLine("export ", "PAPER_TRADING", "false")>>,
     <<EnvLine("", "PAPER_TRADING", "false"), EnvLine("", "LOG_LEVEL", "info"),
       EnvLine("", "PAPER_TRADING", "false")>>}

\* set_var(text, key, value): every line KEY=... becomes KEY=value; the line
\* is appended when there is none
set_var(text, key, value) ==
    IF \E i \in 1..Len(text) : text[i].prefix = "" /\ text[i].key = key
    THEN [i \in 1..Len(text) |->
            IF text[i].prefix = "" /\ text[i].key = key
            THEN EnvLine("", key, value) ELSE text[i]]
    ELSE Append(text, EnvLine("", key, value))

\* step 3: the template's .env with the credentials and the safe default
WriteEnv(template, wallet, privkey) ==
    set_var(set_var(set_var(template, "HYPERLIQUID_WALLET_ADDRESS", wallet),
                    "HYPERLIQUID_PRIVATE_KEY", privkey),
            "PAPER_TRADING", "true")

HEX_COLORS == <<"#58a6ff", "#3fb950", "#f85149", "#d29922", "#bc8cff", "#39d353", "#e3b341", "#79c0ff">>

\* a registration that appends without removing the old entry
RegisterUserAppend(list, username, name, color) ==
    Append(list, [id |-> username, name |-> name,
                  bot_dir |-> <<"/home", username, "astro-bot">>, color |-> color])

\* step 6: drop the entries of this username, append the new one
RegisterUser(list, username, name, color) ==
    Append(SelectSeq(list, LAMBDA u : u.id # username),
           [id |-> username, name |-> name,
            bot_dir |-> <<"/home", username, "astro-bot">>, color |-> color])

\* the arguments of a run: usernames, wallets, the optional display name
\* ("" when it is not given) and what RANDOM % 8 comes to
ProvisionNames == {"bob", "default"}
ProvisionWallets == {"0xA", "0xB"}
ProvisionDisplayNames == {"", "Bob Smith"}
RandomDraws == {0, 7}

(* ------------------------- Calendar Grid Builder ------------------------ *)
\* text is kept as the sequence of its UTF-16 code units
Hyphen == <<45>>
DigitChar(d) == 48 + d
IsDigitChar(c) == c >= 48 /\ c <= 57

RECURSIVE String(_)
\* String(n) of a non-negative integer: its decimal digits
String(n) == IF n < 10 THEN <<DigitChar(n)>> ELSE String(n \div 10) \o <<DigitChar(n % 10)>>

MONTH_NAMES ==
    <<"January", "February", "March", "April", "May", "June",
      "July", "August", "September", "October", "November", "December">>

\* the Date constructor and getters, as ECMAScript defines them on day numbers
\* counted from 1 January 1970
DaysInYear(y) ==
    IF y % 4 # 0 THEN 365 ELSE IF y % 100 # 0 THEN 366 ELSE IF y % 400 # 0 THEN 365 ELSE 366
DayFromYear(y) ==
    365 * (y - 1970) + ((y - 1969) \div 4) - ((y - 1901) \div 100) + ((y - 1601) \div 400)
\* days before the first of month mn (0-based) in year y
DaysBeforeMonth(y, mn) ==
    LET leap == DaysInYear(y) - 365
    IN  CASE mn = 0 -> 0
          [] mn = 1 -> 31
          [] mn = 2 -> 59 + leap
          [] mn = 3 -> 90 + leap
          [] mn = 4 -> 120 + leap
          [] mn = 5 -> 151 + leap
          [] mn = 6 -> 181 + leap
          [] mn = 7 -> 212 + leap
          [] mn = 8 -> 243 + leap
          [] mn = 9 -> 273 + leap
          [] mn = 10 -> 304 + leap
          [] mn = 11 -> 334 + leap
\* new Date(year, monthIndex, date): a two-digit year means 19xx, a month
\* index of 12 is January of the next year, a date of 0 is the day before the 1st
MakeDay(year, monthIndex, date) ==
    LET full == IF year >= 0 /\ year <= 99 THEN 1900 + year ELSE year
        ym   == full + (monthIndex \div 12)
        mn   == monthIndex % 12
    IN  DayFromYear(ym) + DaysBeforeMonth(ym, mn) + date - 1
\* getDay(): 0 = Sunday; day 0 was a Thursday
getDay(day) == (day + 4) % 7
YearFromDay(day) ==
    CHOOSE y \in (1970 + (day \div 366))..(1970 + (day \div 365)) :
        DayFromYear(y) <= day /\ day < DayFromYear(y + 1)
MonthFromDay(day) ==
    LET y == YearFromDay(day)
    IN  CHOOSE mn \in 0..11 :
            /\ DayFromYear(y) + DaysBeforeMonth(y, mn) <= day
            /\ mn < 11 => day < DayFromYear(y) + DaysBeforeMonth(y, mn + 1)
\* getDate(): the day of the month
getDate(day) ==
    day - DayFromYear(YearFromDay(day)) - DaysBeforeMonth(YearFromDay(day), MonthFromDay(day)) + 1

\* a blank cell of the grid (null)
Blank == 0
\* n copies of x
Repeat(x, n) == [i \in 1..n |-> x]

\* a grid whose week starts on Monday
buildMonthGridMonday(year, month) ==
    LET firstWeekday == (getDay(MakeDay(year, month - 1, 1)) + 6) % 7
        daysInMonth  == getDate(MakeDay(year, month, 0))
        filled       == Repeat(Blank, firstWeekday) \o [d \in 1..daysInMonth |-> d]
    IN  filled \o Repeat(Blank, (7 - (Len(filled) % 7)) % 7)

\* a grid that is not padded to whole weeks
buildMonthGridNoPad(year, month) ==
    LET firstWeekday == getDay(MakeDay(year, month - 1, 1))
        daysInMonth  == getDate(MakeDay(year, month, 0))
    IN  Repeat(Blank, firstWeekday) \o [d \in 1..daysInMonth |-> d]

\* buildMonthGrid(year, month)
buildMonthGrid(year, month) ==
    LET firstWeekday == getDay(MakeDay(year, month - 1, 1))
        daysInMonth  == getDate(MakeDay(year, month, 0))
        filled       == Repeat(Blank, firstWeekday) \o [d \in 1..daysInMonth |-> d]
    IN  filled \o Repeat(Blank, (7 - (Len(filled) % 7)) % 7)

\* a key without the zero padding
dateKeyUnpadded(year, month, day) ==
    String(year) \o Hyphen \o String(month) \o Hyphen \o String(day)

\* dateKey(year, month, day): YYYY-MM-DD with month and day padded to two digits
dateKey(year, month, day) ==
    LET m == IF month < 10 THEN <<DigitChar(0)>> \o String(month) ELSE String(month)
        d == IF day < 10 THEN <<DigitChar(0)>> \o String(day) ELSE String(day)
    IN  String(year) \o Hyphen \o m \o Hyphen \o d

\* the years the clock may show when the page loads: before the first year the
\* selector offers, leap years, a century that is no leap year, one that is
ClockYears == {2023, 2024, 2027, 2100, 2400}
\* [CURRENT_YEAR - 1, CURRENT_YEAR, CURRENT_YEAR + 1].filter(y => y >= 2024)
YearOptions(cy) == {y \in {cy - 1, cy, cy + 1} : y >= 2024}

\* the day records of a calendar response: two records of one date, a month
\* end, a resonance day whose multiplier is 1.0, a day of the year before
\* whose multiplier is 1.5 without resonance, and a day of a two-digit month
DayPool ==
    {[date |-> dateKey(2026, 1, 5),   udn |-> 5, resonance |-> TRUE,  multiplier |-> 15],
     [date |-> dateKey(2026, 1, 5),   udn |-> 7, resonance |-> FALSE, multiplier |-> 10],
     [date |-> dateKey(2026, 1, 31),  udn |-> 6, resonance |-> FALSE, multiplier |-> 10],
     [date |-> dateKey(2026, 2, 10),  udn |-> 5, resonance |-> TRUE,  multiplier |-> 10],
     [date |-> dateKey(2025, 12, 31), udn |-> 3, resonance |-> FALSE, multiplier |-> 15],
     [date |-> dateKey(2026, 10, 1),  udn |-> 3, resonance |-> FALSE, multiplier |-> 10]}
DayLists == UNION {[1..n -> DayPool] : n \in 0..MaxDays}

\* a calendar response that is available
AvailableCalendars ==
    {[unavailable |-> FALSE, reason |-> Null, tried_paths |-> Null, days |-> ds] : ds \in DayLists}
\* a calendar response that reports unavailable, with or without a reason,
\* tried paths and days
UnavailableCalendars ==
    [unavailable : {TRUE}, reason : {Null, Some("no birth data")},
     tried_paths : {Null, Some(<<>>), Some(<<"a.json", "b.json">>)},
     days : {<<>>, <<[date |-> dateKey(2026, 1, 5), udn |-> 5, resonance |-> TRUE, multiplier |-> 15]>>}]
CalendarBodies == AvailableCalendars \cup UnavailableCalendars
\* one available calendar, for the grid of any month
GridBodies ==
    {[unavailable |-> FALSE, reason |-> Null, tried_paths |-> Null,
      days |-> <<[date |-> dateKey(2026, 1, 5), udn |-> 5, resonance |-> TRUE, multiplier |-> 15]>>]}

\* the body of the calendar card that renders everything under the
\* unavailable flag as well
CalendarBodyNoFlag(cal, loading) ==
    [loadingPanel     |-> loading,
     unavailablePanel |-> ~loading /\ (cal = Null \/ cal[1].unavailable),
     reason           |-> IF cal = Null THEN "Calendar unavailable"
                          ELSE Coalesce(cal[1].reason, "Calendar unavailable"),
     tried            |-> IF cal = Null THEN <<>> ELSE Coalesce(cal[1].tried_paths, <<>>),
     grid             |-> cal # Null /\ ~loading /\ Len(cal[1].days) > 0]

\* the body of the calendar card: the loading panel, the unavailable panel
\* with its reason and the paths tried, and the month grid
CalendarBody(cal, loading) ==
    [loadingPanel     |-> loading,
     unavailablePanel |-> ~loading /\ (cal = Null \/ cal[1].unavailable),
     reason           |-> IF cal = Null THEN "Calendar unavailable"
                          ELSE Coalesce(cal[1].reason, "Calendar unavailable"),
     tried            |-> IF cal = Null THEN <<>> ELSE Coalesce(cal[1].tried_paths, <<>>),
     grid             |-> cal # Null /\ ~loading /\ ~cal[1].unavailable /\ Len(cal[1].days) > 0]

\* dayMap.get(key) after `for (const d of days) dayMap.set(d.date, d)`: the
\* last record of that date
DayMapGet(days, key) ==
    LET hits == {i \in 1..Len(days) : days[i].date = key}
    IN  IF hits = {} THEN Null
        ELSE Some(days[CHOOSE i \in hits : \A j \in hits : j <= i])

\* the text of the multiplier line of a day cell
DayCellMultiplier(data) == IF data.resonance THEN "1.5x" ELSE "1.0x"

\* the cells of the month grid: a blank, or a day number with the record found
\* under its key and what the cell shows of it
GridCells(days, year, month) ==
    LET cells == buildMonthGrid(year, month)
    IN  [idx \in 1..Len(cells) |->
            IF cells[idx] = Blank
            THEN [dayNum |-> Blank, key |-> <<>>, data |-> Null, multiplier |-> ""]
            ELSE LET key  == dateKey(year, month, cells[idx])
                     data == DayMapGet(days, key)
                 IN  [dayNum |-> cells[idx], key |-> key, data |-> data,
                      multiplier |-> IF data # Null THEN DayCellMultiplier(data[1]) ELSE ""]]

(* ------------------- Calendar: the grouped-by-month list ---------------- *)
\* a < b for strings, code unit by code unit: the order of Array.prototype.sort()
LexLess(a, b) ==
    \E k \in 1..(Len(b)) :
        /\ \A i \in 1..(k - 1) : i <= Len(a) /\ a[i] = b[i]
        /\ (k > Len(a) \/ a[k] < b[k])

\* the elements of a set of strings, sorted ascending
SortStrings(S) ==
    CHOOSE seq \in [1..Cardinality(S) -> S] :
        \A i, j \in 1..Cardinality(S) : i < j => LexLess(seq[i], seq[j])

\* the elements of a set of strings in some order, not sorted
ListStrings(S) ==
    CHOOSE seq \in [1..Cardinality(S) -> S] :
        /\ \A i, j \in 1..Cardinality(S) : i < j => seq[i] # seq[j]
        /\ Cardinality(S) > 1 => \E i, j \in 1..Cardinality(S) : i < j /\ LexLess(seq[j], seq[i])

RECURSIVE Split(_, _)
\* chars.split(sep) for a one-character separator
Split(chars, sep) ==
    IF \A i \in 1..Len(chars) : chars[i] # sep THEN <<chars>>
    ELSE LET i == CHOOSE k \in 1..Len(chars) :
                      chars[k] = sep /\ \A j \in 1..(k - 1) : chars[j] # sep
         IN  <<SubSeq(chars, 1, i - 1)>> \o Split(SubSeq(chars, i + 1, Len(chars)), sep)

RECURSIVE DigitsValue(_)
DigitsValue(chars) ==
    IF chars = <<>> THEN 0
    ELSE 10 * DigitsValue(SubSeq(chars, 1, Len(chars) - 1)) + (chars[Len(chars)] - DigitChar(0))
\* Number(text): the empty string is 0, decimal digits are their value,
\* anything else is NaN
Number(chars) ==
    IF \A i \in 1..Len(chars) : IsDigitChar(chars[i]) THEN Num(DigitsValue(chars)) ELSE NaN

\* day.date.slice(0, 7)
monthKey(day) == SubSeq(day.date, 1, IF Len(day.date) < 7 THEN Len(day.date) ELSE 7)

\* `${MONTH_NAMES[m - 1]} ${y}` of a key, as the pair of its two parts
GroupLabel(key) ==
    LET parts == Split(key, Hyphen[1])
        y     == Number(parts[1])
        m     == IF Len(parts) >= 2 THEN Number(parts[2]) ELSE NaN
    IN  [month |-> IF ~m.nan /\ m.v \in 1..12 THEN MONTH_NAMES[m.v] ELSE "undefined",
         year  |-> y]

\* the groups with their keys left unsorted
groupDaysByMonthUnsorted(days) ==
    LET keys == ListStrings({monthKey(days[i]) : i \in 1..Len(days)})
    IN  [g \in 1..Len(keys) |->
            [key |-> keys[g], label |-> GroupLabel(keys[g]),
             days |-> SelectSeq(days, LAMBDA day : monthKey(day) = keys[g])]]

\* groupDaysByMonth(days)
groupDaysByMonth(days) ==
    LET keys == SortStrings({monthKey(days[i]) : i \in 1..Len(days)})
    IN  [g \in 1..Len(keys) |->
            [key |-> keys[g], label |-> GroupLabel(keys[g]),
             days |-> SelectSeq(days, LAMBDA day : monthKey(day) = keys[g])]]

\* the list variant of the calendar card: the groups, once there is a calendar
GroupedList(cal, loading) ==
    IF cal # Null /\ ~loading THEN groupDaysByMonth(cal[1].days) ELSE <<>>

(* ------------------------- Chart: trade markers ------------------------- *)
\* new Date(timestamp).getTime(): milliseconds, NaN for text that is no date
DateGetTime(timestamp) ==
    CASE timestamp = "1970-01-01T00:00:00.500Z" -> Num(500)
      [] timestamp = "1970-01-01T00:00:01.000Z" -> Num(1000)
      [] timestamp = "1970-01-01T00:00:01.500Z" -> Num(1500)
      [] timestamp = "1970-01-01T00:00:02.999Z" -> Num(2999)
      [] timestamp = "1970-01-01T00:00:03.000Z" -> Num(3000)
      [] OTHER -> NaN

\* Math.floor(ms / 1000)
FloorSeconds(ms) == IF ms.nan THEN NaN ELSE Num(ms.v \div 1000)

\* s.action.includes("BUY")
IncludesBuy(action) == action \in {"BUY", "STRONG_BUY", "WEAK_BUY"}
\* s.action.replace("_", " ")
ActionLabel(action) ==
    CASE action = "STRONG_BUY"  -> "STRONG BUY"
      [] action = "STRONG_SELL" -> "STRONG SELL"
      [] action = "WEAK_BUY"    -> "WEAK BUY"
      [] action = "WEAK_SELL"   -> "WEAK SELL"
      [] OTHER                  -> action

\* a marker whose text is always the action label
MarkerOfActionText(s) ==
    LET buy == IncludesBuy(s.action)
    IN  [time     |-> FloorSeconds(DateGetTime(s.timestamp)),
         position |-> IF buy THEN "belowBar" ELSE "aboveBar",
         color    |-> IF buy THEN "#3fb950" ELSE "#f85149",
         shape    |-> IF buy THEN "arrowUp" ELSE "arrowDown",
         text     |-> ActionLabel(s.action)]

\* the marker of one signal
MarkerOf(s) ==
    LET buy == IncludesBuy(s.action)
    IN  [time     |-> FloorSeconds(DateGetTime(s.timestamp)),
         position |-> IF buy THEN "belowBar" ELSE "aboveBar",
         color    |-> IF buy THEN "#3fb950" ELSE "#f85149",
         shape    |-> IF buy THEN "arrowUp" ELSE "arrowDown",
         text     |-> Coalesce(s.result, ActionLabel(s.action))]

\* signals.filter(s => s.entry_price && s.timestamp && s.action).map(...)
UnsortedMarkers(sigs) ==
    LET kept == SelectSeq(sigs, LAMBDA s :
                    /\ s.entry_price # Null /\ s.entry_price # Some(0)
                    /\ s.timestamp # ""
                    /\ s.action # "")
    IN  [i \in 1..Len(kept) |-> MarkerOf(kept[i])]

\* the rearrangements of a sequence
Rearrangements(seq) ==
    {[i \in 1..Len(seq) |-> seq[f[i]]] :
        f \in {g \in [1..Len(seq) -> 1..Len(seq)] : \A i, j \in 1..Len(seq) : i # j => g[i] # g[j]}}

\* .sort((a, b) => a.time - b.time): with numbers for every time the result
\* is ascending and keeps the input order of equal times; a NaN time makes the
\* comparator inconsistent and the order is then up to the engine
SortOutcomes(ms) ==
    IF \E i \in 1..Len(ms) : ms[i].time.nan
    THEN Rearrangements(ms)
    ELSE {[i \in 1..Len(ms) |-> ms[f[i]]] :
            f \in {g \in [1..Len(ms) -> 1..Len(ms)] :
                     /\ \A i, j \in 1..Len(ms) : i # j => g[i] # g[j]
                     /\ \A i, j \in 1..Len(ms) : i < j =>
                           \/ ms[g[i]].time.v < ms[g[j]].time.v
                           \/ (ms[g[i]].time.v = ms[g[j]].time.v /\ g[i] < g[j])}}

\* the signals the chart may be given
ChartSignalPool ==
    {[timestamp |-> "1970-01-01T00:00:01.500Z", action |-> "STRONG_BUY",  entry_price |-> Some(100), result |-> Null],
     [timestamp |-> "1970-01-01T00:00:02.999Z", action |-> "STRONG_SELL", entry_price |-> Some(100), result |-> Some("WIN")],
     [timestamp |-> "1970-01-01T00:00:01.000Z", action |-> "WEAK_BUY",    entry_price |-> Some(100), result |-> Null],
     [timestamp |-> "1970-01-01T00:00:03.000Z", action |-> "WEAK_SELL",   entry_price |-> Some(100), result |-> Some("STOP")],
     [timestamp |-> "1970-01-01T00:00:00.500Z", action |-> "STRONG_BUY",  entry_price |-> Some(100), result |-> Null],
     [timestamp |-> "not a date",               action |-> "STRONG_BUY",  entry_price |-> Some(100), result |-> Null],
     [timestamp |-> "1970-01-01T00:00:02.999Z", action |-> "STRONG_BUY",  entry_price |-> Null,      result |-> Null],
     [timestamp |-> "1970-01-01T00:00:02.999Z", action |-> "WEAK_SELL",   entry_price |-> Some(0),   result |-> Null],
     [timestamp |-> "",                         action |-> "STRONG_BUY",  entry_price |-> Some(100), result |-> Null],
     [timestamp |-> "1970-01-01T00:00:01.500Z", action |-> "",            entry_price |-> Some(100), result |-> Null]}
ChartSignalLists == UNION {[1..n -> ChartSignalPool] : n \in 0..MaxSignals}

(* --------------------------- Chart: lifecycle --------------------------- *)
\* the three input arrays the chart page may hand to the chart: its defaults
\* (all empty), candles alone, and candles with a signal and open positions
ChartInputs ==
    LET c == [time |-> 1, open |-> 100, high |-> 110, low |-> 90, close |-> 105]
        s == [timestamp |-> "1970-01-01T00:00:01.500Z", action |-> "STRONG_BUY",
              entry_price |-> Some(100), result |-> Null]
        p == [entry |-> 100, sl |-> 95, tp |-> 110]
        q == [entry |-> 200, sl |-> 190, tp |-> 220]
    IN  {[candles |-> <<>>,  signals |-> <<>>,  positions |-> <<>>],
         [candles |-> <<c>>, signals |-> <<>>,  positions |-> <<>>],
         [candles |-> <<c>>, signals |-> <<s>>, positions |-> <<p>>],
         [candles |-> <<c>>, signals |-> <<s>>, positions |-> <<p, q>>]}

NoProps == [rev |-> 0, candles |-> <<>>, positions |-> <<>>]

\* positions.forEach(p => { createPriceLine x 3 })
PriceLines(ps) ==
    [k \in 1..(3 * Len(ps)) |->
        LET p == ps[(k + 2) \div 3]
        IN  CASE k % 3 = 1 -> [price |-> p.entry, color |-> "#58a6ff", lineStyle |-> "Dotted", title |-> "Entry"]
              [] k % 3 = 2 -> [price |-> p.sl,    color |-> "#f85149", lineStyle |-> "Dashed", title |-> "SL"]
              [] OTHER     -> [price |-> p.tp,    color |-> "#3fb950", lineStyle |-> "Dashed", title |-> "TP"]]

(* -------------------------------- state --------------------------------- *)
VARIABLES
    userId,      \* PaperPage: useState("default")
    form,        \* PaperPage: the manual trade form
    submitting,  \* PaperPage: an open-trade request is in flight
    error,       \* PaperPage: error message shown under the form
    success,     \* PaperPage: success message shown under the form
    users,       \* Header: the user list loaded by api.users()
    cache,       \* polling cache: per key, last good value, error flag, latest request
    inflight,    \* fetcher requests issued and not yet completed
    issued,      \* number of fetcher requests issued so far (the last request id)
    lastDrop,    \* the response the polling cache discarded last, with the reason
    calls,       \* gateway calls (api.*) issued and not yet settled
    gw,          \* Remote Data Gateway: one call of get / post / del and how it settled
    closedTrades,  \* Positions / Paper page: the trades collection last polled
    equity,        \* Paper page: the equity snapshot last polled
    positionsView, \* Positions page: the summary strip it renders
    paperView,     \* Paper page: the stats row it renders
    positions,     \* Paper page: the open positions last polled, as the cards read them
    CURRENT_YEAR,    \* Predictions page: the clock's year when the module loaded, 0 before
    selectedMonth,   \* Predictions page: useState(1)
    selectedYear,    \* Predictions page: useState(CURRENT_YEAR)
    calendar,        \* Predictions page: the calendar response, null while there is none
    calendarLoading, \* Predictions page: the first calendar request is in flight
    chartSignals,    \* TradingChart: the signals input of the latest data revision
    markers,         \* TradingChart: the list last handed to series.setMarkers
    containerRef,    \* TradingChart: containerRef.current holds the div
    chartProps,      \* TradingChart: the candles and positions inputs of the latest render
    effects,         \* TradingChart: the effect runs that started the library import
    charts,          \* the chart instances createChart has made
    observers,       \* the ResizeObservers made, each disconnected or not
    elRo,            \* the _ro property of the div: an index into observers, 0 while unset
    backend,         \* the open positions the backend holds for the selected user
    closeCalls,      \* closePaperTrade calls in flight, each with the row it was clicked on
    closed,          \* the last close that returned: the position wanted and the one removed
    regForm,         \* AdminPage: useState<FormState>(EMPTY)
    status,          \* AdminPage: "idle" | "loading" | "success" | "error"
    log,             \* AdminPage: the provisioning log of the last success
    errMsg,          \* AdminPage: the message shown when status is error
    registerCall,    \* the register request in flight with the body it carries, or null
    usersMutates,    \* AdminPage: how often mutate() asked for the users list again
    usersJson,       \* backend/users.json: the list of registered users
    botEnv,          \* /home/<username>/astro-bot/.env per username, null while not written
    linuxUsers,      \* the Linux accounts that exist
    services,        \* the systemd services astrobot-<username> that are active
    signals,       \* Predictions page: the signals collection last polled
    ticker         \* Predictions page: the ticker map last polled

vars == <<userId, form, submitting, error, success, users, cache, inflight,
          issued, lastDrop, calls, gw, closedTrades, equity, positionsView, paperView,
          positions, signals, ticker, CURRENT_YEAR, selectedMonth, selectedYear,
          calendar, calendarLoading, chartSignals, markers,
          containerRef, chartProps, effects, charts, observers, elRo,
          backend, closeCalls, closed,
          regForm, status, log, errMsg, registerCall, usersMutates,
          usersJson, botEnv, linuxUsers, services>>

pageVars == <<userId, form, submitting, error, success>>
cacheVars == <<cache, inflight, issued, lastDrop>>
paperVars == <<pageVars, users, cacheVars, calls>>
metricsVars == <<closedTrades, equity, positionsView, paperView>>
\* what the actions of one component leave alone
predictionVars == <<signals, ticker>>
\* the state of the views that only derive what they show from a snapshot
calendarVars == <<CURRENT_YEAR, selectedMonth, selectedYear, calendar, calendarLoading>>
lifecycleVars == <<containerRef, chartProps, effects, charts, observers, elRo>>
chartVars == <<chartSignals, markers, lifecycleVars>>
backendVars == <<backend, closeCalls, closed>>
registerVars == <<regForm, status, log, errMsg, registerCall, usersMutates>>
provisionVars == <<usersJson, botEnv, linuxUsers, services>>
restVars == <<backendVars, registerVars, provisionVars>>
viewVars == <<predictionVars, positions, calendarVars, chartVars, restVars>>
outsidePaper == <<gw, metricsVars, viewVars>>
outsideGateway == <<paperVars, metricsVars, viewVars>>
outsideMetrics == <<paperVars, gw, viewVars>>
outsidePredictions == <<paperVars, gw, metricsVars, positions, calendarVars, chartVars, restVars>>
outsideCards == <<paperVars, gw, metricsVars, predictionVars, calendarVars, chartVars, restVars>>
outsideCalendar == <<paperVars, gw, metricsVars, predictionVars, positions, chartVars, restVars>>
outsideChart == <<paperVars, gw, metricsVars, predictionVars, positions, calendarVars, restVars>>

NoDrop == [id |-> 0, key |-> <<>>, why |-> "none"]

EmptySlot == [data |-> NoData, error |-> FALSE, latest |-> 0]

\* the Header's effect has run: api.users() is in flight
Init ==
    /\ userId = "default"
    /\ form = DEFAULT_FORM
    /\ submitting = FALSE
    /\ error = ""
    /\ success = ""
    /\ users = {}
    /\ cache = [k \in Keys |-> EmptySlot]
    /\ inflight = {}
    /\ issued = 0
    /\ lastDrop = NoDrop
    /\ calls = <<[op |-> "users", path |-> <<"/api/users">>, uid |-> "", index |-> 0, sent |-> 1]>>
    /\ gw = GwIdle
    /\ closedTrades = <<>>
    /\ equity = Null
    /\ positionsView = RenderPositions(<<>>)
    /\ paperView = RenderPaper(Null, <<>>)
    /\ positions = <<>>
    /\ signals = <<>>
    /\ chartSignals = <<>>
    /\ markers = <<>>
    /\ containerRef = FALSE
    /\ chartProps = NoProps
    /\ effects = <<>>
    /\ charts = <<>>
    /\ observers = <<>>
    /\ elRo = 0
    /\ backend = <<>>
    /\ closeCalls = <<>>
    /\ closed = NoClose
    /\ regForm = EMPTY
    /\ status = "idle"
    /\ log = ""
    /\ errMsg = ""
    /\ registerCall = Null
    /\ usersMutates = 0
    /\ usersJson = <<[id |-> "default", name |-> "Default",
                      bot_dir |-> <<"/home", "astrobot", "astro-bot">>, color |-> "#58a6ff"]>>
    /\ botEnv = [u \in ProvisionNames |-> Null]
    /\ linuxUsers = {"astrobot"}
    /\ services = {}
    /\ CURRENT_YEAR = 0
    /\ selectedMonth = 1
    /\ selectedYear = 0
    /\ calendar = Null
    /\ calendarLoading = FALSE
    /\ ticker = NoTicker

(* ------------------------ subscriptions of the page --------------------- *)
\* a key that ignores the selected user
SubKeyFixed(uid, ep) == <<"default", ep>>

\* the key of a subscription: `/api/users/${userId}/<endpoint>`
SubKey(uid, ep) == <<uid, ep>>

\* the value a subscription hands to the page (data; undefined reads as none)
Displayed(ep) == cache[SubKey(userId, ep)].data

\* rendering calls .filter / .map on positions and trades: a cached value that
\* is not an array throws in render and the page is gone
Crashed == \E ep \in ArrayEndpoints : Displayed(ep).shape = "errbody"

\* keys with a live subscriber
Subscriptions == IF Crashed THEN {} ELSE {SubKey(userId, ep) : ep \in Endpoints}

PendingWrites == Cardinality({i \in 1..Len(calls) : calls[i].op \in {"open", "close"}})

\* request ids are bounded: every pending write keeps one for its re-fetch
Budget == issued + PendingWrites < MaxReq

RemoveAt(seq, i) == SubSeq(seq, 1, i - 1) \o SubSeq(seq, i + 1, Len(seq))

(* ----------------------------- polling cache ---------------------------- *)
\* a completion handler that applies every response, latest or not
ApplyResultAny(c, subs, r, settled, value) ==
    IF r.key \notin subs THEN c
    ELSE IF settled = "fulfilled"
         THEN [c EXCEPT ![r.key].data = value, ![r.key].error = FALSE]
         ELSE [c EXCEPT ![r.key].error = TRUE]

\* the fetch-completion handler of a key: a response whose key has no
\* subscriber any more, or that is not the latest request of its key, is
\* dropped; a fulfilled one replaces the value, a rejected one marks error and
\* keeps the last good value
ApplyResult(c, subs, r, settled, value) ==
    IF r.key \notin subs THEN c
    ELSE IF r.id # c[r.key].latest THEN c
    ELSE IF settled = "fulfilled"
         THEN [c EXCEPT ![r.key].data = value, ![r.key].error = FALSE]
         ELSE [c EXCEPT ![r.key].error = TRUE]

DropReason(c, subs, r) ==
    IF r.key \notin subs THEN "unsubscribed"
    ELSE IF r.id # c[r.key].latest THEN "stale"
    ELSE "none"

\* issue one fetch for key k: it becomes the latest request of k
Issue(k) ==
    /\ issued' = issued + 1
    /\ inflight' = inflight \cup {[id |-> issued + 1, key |-> k]}
    /\ cache' = [cache EXCEPT ![k].latest = issued + 1]

\* a fetch loop that outlives its subscribers
TickOrphan(k) ==
    /\ Budget
    /\ Issue(k)
    /\ UNCHANGED <<pageVars, users, lastDrop, calls>>
    /\ UNCHANGED outsidePaper

\* the fetch loop of a subscribed key: the fetch on subscribe and every
\* interval tick after it, whatever the state of the key
Tick(k) ==
    /\ k \in Subscriptions
    /\ Budget
    /\ Issue(k)
    /\ UNCHANGED <<pageVars, users, lastDrop, calls>>
    /\ UNCHANGED outsidePaper

\* a fetcher request completes with what the network delivered
Complete(r, resp, rows) ==
    /\ ~Crashed
    /\ r \in inflight
    /\ inflight' = inflight \ {r}
    /\ cache' = ApplyResult(cache, Subscriptions, r, fetcher(resp), JsonOf(resp, rows, r.key, r.id))
    /\ lastDrop' = IF DropReason(cache, Subscriptions, r) = "none" THEN lastDrop
                   ELSE [id |-> r.id, key |-> r.key, why |-> DropReason(cache, Subscriptions, r)]
    /\ UNCHANGED <<pageVars, users, issued, calls>>
    /\ UNCHANGED outsidePaper

(* -------------------------------- Header -------------------------------- *)
\* api.users().then(u => setUsers(u)).catch(() => {})
HeaderUsersSettle(i, resp, body) ==
    /\ ~Crashed
    /\ i \in 1..Len(calls)
    /\ calls[i].op = "users"
    /\ body \in GatewayBodies("users")
    /\ LET out == ApiCall("users", calls[i].path, resp, body) IN
         users' = IF out.settled = "fulfilled" THEN out.value ELSE users
    /\ calls' = RemoveAt(calls, i)
    /\ UNCHANGED <<pageVars, cacheVars>>
    /\ UNCHANGED outsidePaper

\* the <select> is rendered for more than one user; onChange -> setUserId
SetUserId(u) ==
    /\ ~Crashed
    /\ Cardinality(users) > 1
    /\ u \in users
    /\ u # userId
    /\ userId' = u
    /\ UNCHANGED <<form, submitting, error, success, users, cacheVars, calls>>
    /\ UNCHANGED outsidePaper

(* ----------------------- Paper Trading page: form ----------------------- *)
\* the side toggle: setForm(f => ({...f, side: s}))
SetSide(s) ==
    /\ ~Crashed
    /\ s \in Sides
    /\ form' = [form EXCEPT !.side = s]
    /\ UNCHANGED <<userId, submitting, error, success, users, cacheVars, calls>>
    /\ UNCHANGED outsidePaper

\* an input's onChange: setForm(f => ({...f, [key]: e.target.value}))
SetField(key, val) ==
    /\ ~Crashed
    /\ key \in FieldKeys
    /\ val \in FieldVals(key) \cup PreviewVals(key)
    /\ form' = [form EXCEPT ![key] = val]
    /\ UNCHANGED <<userId, submitting, error, success, users, cacheVars, calls>>
    /\ UNCHANGED outsidePaper

\* a validation that lets a stop equal to the entry through
ValidationErrorStrict(f) ==
    LET entry == parseFloat(f.entry)
        sl == parseFloat(f.sl)
        tp == parseFloat(f.tp)
        notional == parseFloat(f.notional)
    IN  IF Falsy(entry) \/ Falsy(sl) \/ Falsy(tp) \/ Falsy(notional) THEN "All fields required."
        ELSE IF f.side = "BUY" /\ Ge(sl, entry) /\ sl # entry THEN "SL must be below entry for BUY."
        ELSE IF f.side = "SELL" /\ Le(sl, entry) /\ sl # entry THEN "SL must be above entry for SELL."
        ELSE ""

\* the checks of handleOpen: the message it sets, "" when the form passes
ValidationError(f) ==
    LET entry == parseFloat(f.entry)
        sl == parseFloat(f.sl)
        tp == parseFloat(f.tp)
        notional == parseFloat(f.notional)
    IN  IF Falsy(entry) \/ Falsy(sl) \/ Falsy(tp) \/ Falsy(notional) THEN "All fields required."
        ELSE IF f.side = "BUY" /\ Ge(sl, entry) THEN "SL must be below entry for BUY."
        ELSE IF f.side = "SELL" /\ Le(sl, entry) THEN "SL must be above entry for SELL."
        ELSE ""

\* handleOpen up to its await: clear both messages, validate, and either set
\* the error and return or set submitting and send POST /api/paper/trade.
\* The submit button is disabled while submitting.
HandleOpen ==
    /\ ~Crashed
    /\ ~submitting
    /\ success' = ""
    /\ IF ValidationError(form) # ""
       THEN /\ error' = ValidationError(form)
            /\ UNCHANGED <<userId, form, submitting, users, cacheVars, calls>>
       ELSE /\ Budget
            /\ PendingWrites < MaxCalls
            /\ error' = ""
            /\ submitting' = TRUE
            /\ calls' = Append(calls, [op |-> "open", path |-> <<"/api/paper/trade">>,
                                       uid |-> userId, index |-> 0, sent |-> 1])
            /\ UNCHANGED <<userId, form, users, cacheVars>>
    /\ UNCHANGED outsidePaper

\* a write that is followed by no re-fetch
RefreshNone == UNCHANGED <<cache, inflight, issued>>

\* mutatePosns(): an out-of-band fetch of the page's positions key
Refresh == Issue(SubKey(userId, "positions"))

\* a handleOpen whose catch leaves submitting set
HandleOpenSettleNoFinally(i, resp) ==
    /\ ~Crashed
    /\ i \in 1..Len(calls)
    /\ calls[i].op = "open"
    /\ LET out == ApiCall("open", calls[i].path, resp, {"ok"}) IN
            IF out.settled = "fulfilled"
            THEN /\ success' = "Paper trade opened!"
                 /\ form' = DEFAULT_FORM
                 /\ Refresh
                 /\ submitting' = FALSE
                 /\ UNCHANGED error
            ELSE /\ error' = "Failed to open trade."
                 /\ UNCHANGED <<success, form, cache, inflight, issued, submitting>>
    /\ calls' = RemoveAt(calls, i)
    /\ UNCHANGED <<userId, users, lastDrop>>
    /\ UNCHANGED outsidePaper

\* handleOpen after its await: try / catch / finally
HandleOpenSettle(i, resp) ==
    /\ ~Crashed
    /\ i \in 1..Len(calls)
    /\ calls[i].op = "open"
    /\ LET out == ApiCall("open", calls[i].path, resp, {"ok"}) IN
            IF out.settled = "fulfilled"
            THEN /\ success' = "Paper trade opened!"
                 /\ form' = DEFAULT_FORM
                 /\ Refresh
                 /\ UNCHANGED error
            ELSE /\ error' = "Failed to open trade."
                 /\ UNCHANGED <<success, form, cache, inflight, issued>>
    /\ submitting' = FALSE
    /\ calls' = RemoveAt(calls, i)
    /\ UNCHANGED <<userId, users, lastDrop>>
    /\ UNCHANGED outsidePaper

\* the close button of row `index` of the rendered positions list:
\* DELETE /api/paper/trade/{userId}/{index}
HandleClose(index) ==
    /\ ~Crashed
    /\ Displayed("positions").shape = "payload"
    /\ index \in 0..(Displayed("positions").rows - 1)
    /\ Budget
    /\ PendingWrites < MaxCalls
    /\ calls' = Append(calls, [op |-> "close", path |-> <<"/api/paper/trade", userId, index>>,
                               uid |-> userId, index |-> index, sent |-> 1])
    /\ UNCHANGED <<pageVars, users, cacheVars>>
    /\ UNCHANGED outsidePaper

\* handleClose after its await: re-fetch on success, silent on failure
HandleCloseSettle(i, resp) ==
    /\ ~Crashed
    /\ i \in 1..Len(calls)
    /\ calls[i].op = "close"
    /\ LET out == ApiCall("close", calls[i].path, resp, {"ok"}) IN
            IF out.settled = "fulfilled"
            THEN Refresh
            ELSE UNCHANGED <<cache, inflight, issued>>
    /\ calls' = RemoveAt(calls, i)
    /\ UNCHANGED <<pageVars, users, lastDrop>>
    /\ UNCHANGED outsidePaper

(* ---------------------- Remote Data Gateway: calls ---------------------- *)
\* a call of get / post / del: exactly one fetch is issued
GwCall(method, path) ==
    /\ gw.phase # "pending"
    /\ gw' = [phase |-> "pending", method |-> method, path |-> path, sent |-> 1,
              resp |-> NoResponse, body |-> {}, outcome |-> NoOutcome]
    /\ UNCHANGED outsideGateway

\* the awaited fetch returns or fails, and the call settles
GwSettle(resp, body) ==
    /\ gw.phase = "pending"
    /\ gw' = [gw EXCEPT !.phase = "settled", !.resp = resp, !.body = body,
                        !.outcome = GatewayFn(gw.method, gw.path, resp, body)]
    /\ UNCHANGED outsideGateway

(* ------------------- Derived metrics: new snapshots --------------------- *)
\* a poll delivers a trades collection and the pages render again
TradesArrive(trades) ==
    /\ closedTrades' = trades
    /\ positionsView' = RenderPositions(trades)
    /\ paperView' = RenderPaper(equity, trades)
    /\ UNCHANGED equity
    /\ UNCHANGED outsideMetrics

\* a poll delivers an equity snapshot and the Paper page renders again
EquityArrives(eq) ==
    /\ equity' = eq
    /\ paperView' = RenderPaper(eq, closedTrades)
    /\ UNCHANGED <<closedTrades, positionsView>>
    /\ UNCHANGED outsideMetrics

(* --------------------- Paper page: open-position cards ------------------ *)
\* the positions poll delivers a collection and the cards render again
PositionsArrive(ps) ==
    /\ positions' = ps
    /\ UNCHANGED outsideCards

(* ------------------ Paper page: closing a row by index ------------------ *)
outsideBackend == <<paperVars, gw, metricsVars, predictionVars, calendarVars, chartVars,
                    registerVars, provisionVars>>

\* the bot or another session opens a position: the backend appends it
BackendOpens(p) ==
    /\ Len(backend) < MaxOpen
    /\ \A k \in 1..Len(backend) : backend[k] # p
    /\ backend' = Append(backend, p)
    /\ UNCHANGED <<positions, closeCalls, closed, outsideBackend>>

\* the bot closes a position (stop or target hit)
BackendCloses(k) ==
    /\ k \in 1..Len(backend)
    /\ backend' = RemoveAt(backend, k)
    /\ UNCHANGED <<positions, closeCalls, closed, outsideBackend>>

\* a positions poll (interval tick or the re-fetch after a write) delivers
\* the backend's list and the rows render again
PositionsPolled ==
    /\ positions' = backend
    /\ UNCHANGED <<backend, closeCalls, closed, outsideBackend>>

\* the close button of row i: handleClose(i) sends
\* DELETE /api/paper/trade/{userId}/{i}
CloseRow(i) ==
    /\ i \in 0..(Len(positions) - 1)
    /\ Len(closeCalls) < MaxCalls
    /\ closeCalls' = Append(closeCalls, [index |-> i, row |-> positions[i + 1]])
    /\ UNCHANGED <<positions, backend, closed, outsideBackend>>

\* the DELETE reaches the backend and returns
CloseRowSettle(n) ==
    /\ n \in 1..Len(closeCalls)
    /\ LET c == closeCalls[n] IN
            /\ backend' = DeleteAt(backend, c.index)
            /\ closed' = [wanted |-> Some(c.row),
                          removed |-> IF c.index < Len(backend)
                                      THEN Some(backend[c.index + 1]) ELSE Null]
    /\ closeCalls' = RemoveAt(closeCalls, n)
    /\ UNCHANGED <<positions, outsideBackend>>

(* ------------------------ Admin page: registration ---------------------- *)
outsideRegister == <<paperVars, gw, metricsVars, predictionVars, positions, calendarVars,
                     chartVars, backendVars, provisionVars>>

\* onChange of one input, then the auto-fill effect of the render
SetRegisterField(key, val) ==
    /\ key \in RegisterKeys
    /\ val \in RegisterVals(key)
    /\ regForm' = IF key = "display_name" /\ val # regForm.display_name
                  THEN AutoFill([regForm EXCEPT ![key] = val])
                  ELSE [regForm EXCEPT ![key] = val]
    /\ UNCHANGED <<status, log, errMsg, registerCall, usersMutates, outsideRegister>>

\* handleRegister up to its await. Every input is required and the submit
\* button is disabled while loading.
HandleRegister ==
    /\ \A key \in RegisterKeys : regForm[key] # <<>>
    /\ status # "loading"
    /\ usersMutates < MaxMutates
    /\ status' = "loading"
    /\ log' = ""
    /\ errMsg' = ""
    /\ registerCall' = Some(regForm)
    /\ UNCHANGED <<regForm, usersMutates, outsideRegister>>

\* a handleRegister that forgets to clear the form
HandleRegisterSettleKeepForm(resp, body) ==
    /\ registerCall # Null
    /\ registerCall' = Null
    /\ IF resp.net = "failed"
       THEN /\ errMsg' = "Failed to fetch" /\ status' = "error"
            /\ UNCHANGED <<log, regForm, usersMutates>>
       ELSE IF ~resp.json
       THEN /\ errMsg' = "Unexpected token" /\ status' = "error"
            /\ UNCHANGED <<log, regForm, usersMutates>>
       ELSE IF ~Ok(resp)
       THEN /\ errMsg' = Coalesce(body.detail, "Unknown error") /\ status' = "error"
            /\ UNCHANGED <<log, regForm, usersMutates>>
       ELSE /\ log' = Coalesce(body.log, "")
            /\ status' = "success"
            /\ usersMutates' = usersMutates + 1
            /\ UNCHANGED <<errMsg, regForm>>
    /\ UNCHANGED outsideRegister

\* handleRegister after its awaits: fetch, res.json(), the res.ok test, and
\* the catch
HandleRegisterSettle(resp, body) ==
    /\ registerCall # Null
    /\ registerCall' = Null
    /\ IF resp.net = "failed"
       THEN /\ errMsg' = "Failed to fetch" /\ status' = "error"
            /\ UNCHANGED <<log, regForm, usersMutates>>
       ELSE IF ~resp.json
       THEN /\ errMsg' = "Unexpected token" /\ status' = "error"
            /\ UNCHANGED <<log, regForm, usersMutates>>
       ELSE IF ~Ok(resp)
       THEN /\ errMsg' = Coalesce(body.detail, "Unknown error") /\ status' = "error"
            /\ UNCHANGED <<log, regForm, usersMutates>>
       ELSE /\ log' = Coalesce(body.log, "")
            /\ status' = "success"
            /\ regForm' = AutoFill(EMPTY)
            /\ usersMutates' = usersMutates + 1
            /\ UNCHANGED errMsg
    /\ UNCHANGED outsideRegister

(* --------------------------- provision_user.sh -------------------------- *)
\* one successful run as root with the template and users.json in place:
\* the account, the bot directory with its .env, the service, the registry
Provision(username, wallet, privkey, display, template, random) ==
    /\ username # "" /\ wallet # "" /\ privkey # ""
    /\ linuxUsers' = linuxUsers \cup {username}
    /\ botEnv' = [botEnv EXCEPT ![username] = Some(WriteEnv(template, wallet, privkey))]
    /\ services' = services \cup {<<"astrobot", username>>}
    /\ usersJson' = RegisterUser(usersJson, username,
                                 IF display = "" THEN username ELSE display,
                                 HEX_COLORS[(random % Len(HEX_COLORS)) + 1])
    /\ UNCHANGED <<paperVars, gw, metricsVars, predictionVars, positions, calendarVars,
                   chartVars, backendVars, registerVars>>

(* ------------------- Predictions page: new snapshots -------------------- *)
\* the signals poll delivers a collection and the page renders again
SignalsArrive(sigs) ==
    /\ signals' = sigs
    /\ UNCHANGED ticker
    /\ UNCHANGED outsidePredictions

\* the ticker poll delivers a price map and the page renders again
TickerArrives(tk) ==
    /\ ticker' = tk
    /\ UNCHANGED signals
    /\ UNCHANGED outsidePredictions

(* ---------------------- Predictions page: the calendar ------------------ *)
\* the module loads and the page mounts: the year is read off the clock, the
\* selectors start at January of that year, the calendar request is issued
Mount(y) ==
    /\ CURRENT_YEAR = 0
    /\ CURRENT_YEAR' = y
    /\ selectedMonth' = 1
    /\ selectedYear' = y
    /\ calendar' = Null
    /\ calendarLoading' = TRUE
    /\ UNCHANGED outsideCalendar

\* api.predictionsCalendar(CURRENT_YEAR) settles: the body becomes the data
\* when get returns it, and there is no data when get throws
CalendarSettle(resp, body) ==
    /\ calendarLoading
    /\ calendar' = IF get(<<"/api/predictions/calendar">>, resp, body).settled = "fulfilled"
                   THEN Some(body) ELSE Null
    /\ calendarLoading' = FALSE
    /\ UNCHANGED <<CURRENT_YEAR, selectedMonth, selectedYear>>
    /\ UNCHANGED outsideCalendar

\* the month selector, rendered with the grid
SetSelectedMonth(m) ==
    /\ CalendarBody(calendar, calendarLoading).grid
    /\ selectedMonth' = m
    /\ UNCHANGED <<CURRENT_YEAR, selectedYear, calendar, calendarLoading>>
    /\ UNCHANGED outsideCalendar

\* the year selector, rendered with the grid
SetSelectedYear(y) ==
    /\ CalendarBody(calendar, calendarLoading).grid
    /\ y \in YearOptions(CURRENT_YEAR)
    /\ selectedYear' = y
    /\ UNCHANGED <<CURRENT_YEAR, selectedMonth, calendar, calendarLoading>>
    /\ UNCHANGED outsideCalendar

(* ------------------------------ TradingChart --------------------------- *)
\* a data revision with a new signals input: the effect builds the markers,
\* sorts them and hands them to the series
DrawMarkers(sigs, sorted) ==
    /\ sorted \in SortOutcomes(UnsortedMarkers(sigs))
    /\ chartSignals' = sigs
    /\ markers' = sorted
    /\ UNCHANGED <<lifecycleVars, outsideChart>>

\* the effect body up to the import: nothing without a container or candles,
\* otherwise the import starts with chart = null in the closure
RunEffect(efs, attached, rev, p) ==
    IF ~attached \/ Len(p.candles) = 0 THEN efs
    ELSE Append(efs, [rev |-> rev, candles |-> p.candles, signals |-> p.signals,
                      positions |-> p.positions,
                      chart |-> 0, resolved |-> FALSE, cleaned |-> FALSE])

\* the cleanup of the effect runs that still await it, with el the div or
\* null: el?._ro?.disconnect(); chart?.remove()
CleanedEffects == [i \in 1..Len(effects) |-> [effects[i] EXCEPT !.cleaned = TRUE]]
CleanedObservers(el) ==
    [o \in 1..Len(observers) |->
        IF el /\ o = elRo /\ \E i \in 1..Len(effects) : ~effects[i].cleaned
        THEN [observers[o] EXCEPT !.disconnected = TRUE] ELSE observers[o]]
CleanedCharts ==
    [c \in 1..Len(charts) |->
        IF \E i \in 1..Len(effects) : ~effects[i].cleaned /\ effects[i].chart = c
        THEN [charts[c] EXCEPT !.removed = TRUE] ELSE charts[c]]

\* the component mounts: the ref is attached and the effect runs
ChartMount(p) ==
    /\ ~containerRef /\ chartProps.rev = 0
    /\ containerRef' = TRUE
    /\ chartProps' = [rev |-> 1, candles |-> p.candles, positions |-> p.positions]
    /\ chartSignals' = p.signals
    /\ effects' = RunEffect(effects, TRUE, 1, p)
    /\ UNCHANGED <<markers, charts, observers, elRo, outsideChart>>

\* a render with a replaced input array: the cleanup of the previous effect
\* run, then the effect again
ChartRevise(p) ==
    /\ containerRef /\ chartProps.rev < MaxRevisions + 1
    /\ chartProps' = [rev |-> chartProps.rev + 1, candles |-> p.candles, positions |-> p.positions]
    /\ chartSignals' = p.signals
    /\ observers' = CleanedObservers(TRUE)
    /\ charts' = CleanedCharts
    /\ effects' = RunEffect(CleanedEffects, TRUE, chartProps.rev + 1, p)
    /\ UNCHANGED <<markers, containerRef, elRo, outsideChart>>

\* the import of an effect run resolves: nothing without a container,
\* otherwise the chart, its series, markers, price lines and observer
ImportResolve(e, sorted) ==
    /\ e \in 1..Len(effects) /\ ~effects[e].resolved
    /\ sorted \in SortOutcomes(UnsortedMarkers(effects[e].signals))
    /\ IF ~containerRef
       THEN /\ effects' = [effects EXCEPT ![e].resolved = TRUE]
            /\ UNCHANGED <<markers, charts, observers, elRo>>
       ELSE /\ charts' = Append(charts, [rev |-> effects[e].rev,
                                         candles |-> effects[e].candles,
                                         markers |-> sorted,
                                         lines |-> PriceLines(effects[e].positions),
                                         removed |-> FALSE])
            /\ effects' = [effects EXCEPT ![e].resolved = TRUE, ![e].chart = Len(charts) + 1]
            /\ markers' = sorted
            /\ observers' = Append(observers, [disconnected |-> FALSE])
            /\ elRo' = Len(observers) + 1
    /\ UNCHANGED <<chartSignals, containerRef, chartProps, outsideChart>>

\* the component unmounts: the ref is detached and the cleanup of the last
\* effect run follows; whether the cleanup still reads the div from the ref
\* depends on the version of the rendering library
ChartUnmount(attached) ==
    /\ containerRef
    /\ containerRef' = FALSE
    /\ observers' = CleanedObservers(attached)
    /\ charts' = CleanedCharts
    /\ effects' = CleanedEffects
    /\ UNCHANGED <<chartSignals, markers, chartProps, elRo, outsideChart>>

(* ----------------------------- specification ---------------------------- *)
Next ==
    \/ \E k \in Keys : Tick(k)
    \/ \E r \in inflight, resp \in Responses, rows \in 0..MaxRows :
          rows \in Payloads(r.key[2]) /\ Complete(r, resp, rows)
    \/ \E i \in 1..Len(calls), resp \in Responses, body \in UserLists : HeaderUsersSettle(i, resp, body)
    \/ \E u \in Users : SetUserId(u)
    \/ \E s \in Sides : SetSide(s)
    \/ \E key \in FieldKeys : \E val \in FieldVals(key) : SetField(key, val)
    \/ HandleOpen
    \/ \E i \in 1..Len(calls), resp \in Responses : HandleOpenSettle(i, resp)
    \/ \E index \in 0..MaxRows : HandleClose(index)
    \/ \E i \in 1..Len(calls), resp \in Responses : HandleCloseSettle(i, resp)
    \/ \E method \in GwMethods, path \in GwPaths : GwCall(method, path)
    \/ \E resp \in Responses, body \in GwBodies : GwSettle(resp, body)
    \/ \E trades \in TradeLists : TradesArrive(trades)
    \/ \E eq \in EquityStates : EquityArrives(eq)
    \/ \E ps \in PositionLists : PositionsArrive(ps)
    \/ \E sigs \in SignalLists \cup LevelSignals : SignalsArrive(sigs)
    \/ \E tk \in Tickers : TickerArrives(tk)
    \/ \E sigs \in ChartSignalLists : \E sorted \in SortOutcomes(UnsortedMarkers(sigs)) :
          DrawMarkers(sigs, sorted)
    \/ \E y \in ClockYears \cup {2026} : Mount(y)
    \/ \E resp \in Responses, body \in CalendarBodies \cup GridBodies : CalendarSettle(resp, body)
    \/ \E m \in 1..12 : SetSelectedMonth(m)
    \/ \E y \in ClockYears \cup {2026} : \E d \in {-1, 0, 1} : SetSelectedYear(y + d)
    \/ \E p \in ChartInputs : ChartMount(p)
    \/ \E p \in ChartInputs : ChartRevise(p)
    \/ \E e \in 1..Len(effects) : \E sorted \in SortOutcomes(UnsortedMarkers(effects[e].signals)) :
          ImportResolve(e, sorted)
    \/ \E attached \in BOOLEAN : ChartUnmount(attached)
    \/ \E p \in BackendPool : BackendOpens(p)
    \/ \E k \in 1..MaxOpen : BackendCloses(k)
    \/ PositionsPolled
    \/ \E i \in 0..(MaxOpen - 1) : CloseRow(i)
    \/ \E n \in 1..Len(closeCalls) : CloseRowSettle(n)
    \/ \E key \in RegisterKeys : \E val \in RegisterVals(key) : SetRegisterField(key, val)
    \/ HandleRegister
    \/ \E resp \in Responses, body \in RegisterBodies : HandleRegisterSettle(resp, body)
    \/ \E username \in ProvisionNames, wallet \in ProvisionWallets, display \in ProvisionDisplayNames,
          template \in TemplateEnvs, random \in RandomDraws :
          Provision(username, wallet, "0xK", display, template, random)

\* the whole front end
Spec == Init /\ [][Next]_vars

\* the polling subscriptions of the page and the user selector
NextPoll ==
    \/ \E k \in Keys : Tick(k)
    \/ \E r \in inflight, resp \in Responses, rows \in 0..MaxRows :
          rows \in Payloads(r.key[2]) /\ Complete(r, resp, rows)
    \/ \E i \in 1..Len(calls), resp \in Responses, body \in UserLists : HeaderUsersSettle(i, resp, body)
    \/ \E u \in Users : SetUserId(u)

SpecPoll == Init /\ [][NextPoll]_vars

\* the manual-trade form and the write operations of the Paper page, with the
\* positions subscription of the selected user
NextPaper ==
    \/ Tick(SubKey(userId, "positions"))
    \/ \E r \in inflight, resp \in Responses, rows \in 0..MaxRows :
          rows \in Payloads(r.key[2]) /\ Complete(r, resp, rows)
    \/ \E s \in Sides : SetSide(s)
    \/ \E key \in FieldKeys : \E val \in FieldVals(key) : SetField(key, val)
    \/ HandleOpen
    \/ \E i \in 1..Len(calls), resp \in Responses : HandleOpenSettle(i, resp)
    \/ \E index \in 0..MaxRows : HandleClose(index)
    \/ \E i \in 1..Len(calls), resp \in Responses : HandleCloseSettle(i, resp)

SpecPaper == Init /\ [][NextPaper]_vars

\* the manual-trade form alone: typing, the side toggle and the submit
NextForm ==
    \/ \E s \in Sides : SetSide(s)
    \/ \E key \in FieldKeys : \E val \in FieldVals(key) : SetField(key, val)
    \/ HandleOpen
    \/ \E i \in 1..Len(calls), resp \in Responses : HandleOpenSettle(i, resp)

SpecForm == Init /\ [][NextForm]_vars

\* the write operations of the Paper page for a trade that passes validation,
\* with the positions subscription of the selected user
NextWrites ==
    \/ Tick(SubKey(userId, "positions"))
    \/ \E r \in inflight, resp \in Responses, rows \in 0..MaxRows :
          rows \in Payloads(r.key[2]) /\ Complete(r, resp, rows)
    \/ \E key \in FieldKeys : \E val \in ValidVals(key) : SetField(key, val)
    \/ HandleOpen
    \/ \E i \in 1..Len(calls), resp \in Responses : HandleOpenSettle(i, resp)
    \/ \E index \in 0..MaxRows : HandleClose(index)
    \/ \E i \in 1..Len(calls), resp \in Responses : HandleCloseSettle(i, resp)

SpecWrites == Init /\ [][NextWrites]_vars

\* the gateway functions alone
NextGateway ==
    \/ \E method \in GwMethods, path \in GwPaths : GwCall(method, path)
    \/ \E resp \in Responses, body \in GwBodies : GwSettle(resp, body)

SpecGateway == Init /\ [][NextGateway]_vars

\* the derived metrics alone
NextMetrics ==
    \/ \E trades \in TradeLists : TradesArrive(trades)
    \/ \E eq \in EquityStates : EquityArrives(eq)

SpecMetrics == Init /\ [][NextMetrics]_vars

\* the risk and reward amounts of the Paper page: the cards and the preview
NextRisk ==
    \/ \E key \in FieldKeys : \E val \in PreviewVals(key) : SetField(key, val)
    \/ \E ps \in PositionLists : PositionsArrive(ps)

SpecRisk == Init /\ [][NextRisk]_vars

\* the month grid for any clock year and any selection
NextGrid ==
    \/ \E y \in ClockYears : Mount(y)
    \/ \E resp \in Responses, body \in GridBodies : CalendarSettle(resp, body)
    \/ \E m \in 1..12 : SetSelectedMonth(m)
    \/ \E y \in ClockYears : \E d \in {-1, 0, 1} : SetSelectedYear(y + d)

SpecGrid == Init /\ [][NextGrid]_vars

\* the calendar card for any calendar response, the page loaded in 2026
NextCalendar ==
    \/ Mount(2026)
    \/ \E resp \in Responses, body \in CalendarBodies : CalendarSettle(resp, body)
    \/ \E m \in 1..12 : SetSelectedMonth(m)
    \/ \E y \in YearOptions(2026) : SetSelectedYear(y)

SpecCalendar == Init /\ [][NextCalendar]_vars

\* the markers of the chart alone
NextMarkers ==
    \/ \E sigs \in ChartSignalLists : \E sorted \in SortOutcomes(UnsortedMarkers(sigs)) :
          DrawMarkers(sigs, sorted)

SpecMarkers == Init /\ [][NextMarkers]_vars

\* the life of one chart component: mount, renders, import resolutions, unmount
NextChart ==
    \/ \E p \in ChartInputs : ChartMount(p)
    \/ \E p \in ChartInputs : ChartRevise(p)
    \/ \E e \in 1..Len(effects) : \E sorted \in SortOutcomes(UnsortedMarkers(effects[e].signals)) :
          ImportResolve(e, sorted)
    \/ \E attached \in BOOLEAN : ChartUnmount(attached)

SpecChart == Init /\ [][NextChart]_vars

\* closing rows of the Paper page while the backend's list moves
NextClose ==
    \/ \E p \in BackendPool : BackendOpens(p)
    \/ \E k \in 1..MaxOpen : BackendCloses(k)
    \/ PositionsPolled
    \/ \E i \in 0..(MaxOpen - 1) : CloseRow(i)
    \/ \E n \in 1..Len(closeCalls) : CloseRowSettle(n)

SpecClose == Init /\ [][NextClose]_vars

\* the registration form of the Admin page; the request settles in the end
NextRegister ==
    \/ \E key \in RegisterKeys : \E val \in RegisterVals(key) : SetRegisterField(key, val)
    \/ HandleRegister
    \/ \E resp \in Responses, body \in RegisterBodies : HandleRegisterSettle(resp, body)

SpecRegister ==
    /\ Init /\ [][NextRegister]_vars
    /\ WF_vars(\E resp \in Responses, body \in RegisterBodies : HandleRegisterSettle(resp, body))

\* runs of provision_user.sh, one after the other
NextProvision ==
    \E username \in ProvisionNames, wallet \in ProvisionWallets, display \in ProvisionDisplayNames,
       template \in TemplateEnvs, random \in RandomDraws :
       Provision(username, wallet, "0xK", display, template, random)

SpecProvision == Init /\ [][NextProvision]_vars

\* a started import resolves in the end
SpecChartLive ==
    SpecChart /\ \A e \in 1..(MaxRevisions + 1) :
                    WF_vars(/\ e \in 1..Len(effects)
                            /\ \E sorted \in SortOutcomes(UnsortedMarkers(effects[e].signals)) :
                                  ImportResolve(e, sorted))

\* the predictions filter alone
NextFilter ==
    \/ \E sigs \in SignalLists : SignalsArrive(sigs)

SpecFilter == Init /\ [][NextFilter]_vars

\* the levels table: one signal with a target and a stop against the ticker
NextLevels ==
    \/ \E sigs \in LevelSignals : SignalsArrive(sigs)
    \/ \E tk \in Tickers : TickerArrives(tk)

SpecLevels == Init /\ [][NextLevels]_vars

(* ======================= properties of the model ======================== *)

\* a response the spec counts as a fetch failure: no response, or a non-2xx one
FetchFailed(resp) == resp.net = "failed" \/ ~Ok(resp)
\* a gateway call that returned: a 2xx response with a JSON body
CallReturned(resp) == resp.net = "response" /\ Ok(resp) /\ resp.json

\* C1: stale-response invariant. For every key, the request that wrote the
\* cached value is never replaced by an earlier-issued one: if A was issued
\* before B for the same key and B's value is cached, a late resolution of A
\* leaves B's value in place.
C1_StaleResponseNeverOverwrites ==
    [][\A k \in Keys : cache'[k].data.req >= cache[k].data.req]_vars

\* C1 witness: a response was dropped as stale while the value of a later
\* request of the same key is the cached one.
C1_Witness ==
    /\ lastDrop.why = "stale"
    /\ cache[lastDrop.key].data.shape = "payload"
    /\ cache[lastDrop.key].data.req > lastDrop.id

\* C2, as the spec states it: when the latest fetch of a subscribed key fails
\* (no response or a non-2xx one), the key keeps its last good value and marks
\* error.
C2_FailureKeepsLastGood ==
    [][\A r \in inflight, resp \in Responses, rows \in 0..MaxRows :
         (/\ Complete(r, resp, rows)
          /\ FetchFailed(resp)
          /\ r.key \in Subscriptions
          /\ r.id = cache[r.key].latest)
         => (cache'[r.key].data = cache[r.key].data /\ cache'[r.key].error)]_vars

\* C3, as the spec states it: the body of a non-2xx response is never stored
\* as a key's data and never crashes the page that reads it.
C3_NonOkBodyNeverStored ==
    /\ \A k \in Keys : cache[k].data.shape # "errbody"
    /\ ~Crashed

C4_GatewayContract ==
    /\ gw.phase # "idle" => gw.sent = 1
    /\ gw.phase = "settled" =>
         /\ CallReturned(gw.resp) =>
              gw.outcome.settled = "fulfilled" /\ gw.outcome.value = gw.body
         /\ (gw.resp.net = "response" /\ ~Ok(gw.resp)) =>
              /\ gw.outcome.settled = "rejected"
              /\ gw.outcome.status = gw.resp.status
              /\ gw.outcome.path = gw.path

\* C4 witness: a get that hit a non-success status has settled.
C4_Witness ==
    /\ gw.phase = "settled"
    /\ gw.method = "get"
    /\ gw.resp.net = "response"
    /\ gw.resp.status = 500
    /\ gw.outcome.settled = "rejected"

\* the condition under which the spec has a manual trade rejected: a field is
\* missing, or the stop is on the wrong side of the entry
FieldMissing(f) == f.entry = "" \/ f.sl = "" \/ f.tp = "" \/ f.notional = ""
StopOnWrongSide(f) ==
    /\ ~FieldMissing(f)
    /\ \/ f.side = "BUY" /\ parseFloat(f.sl).v >= parseFloat(f.entry).v
       \/ f.side = "SELL" /\ parseFloat(f.sl).v <= parseFloat(f.entry).v

\* no field is empty and none is the number 0
AllNonZero(f) == \A key \in FieldKeys : f[key] \notin {"", "0"}

\* C6: a manual trade whose fields fail validation (a field is missing, or
\* side = BUY and sl >= entry, or side = SELL and sl <= entry) is rejected
\* before any request is sent: handleOpen sets an error message (for a BUY
\* with four non-zero fields and sl >= entry, "SL must be below entry for
\* BUY.") and leaves the pending calls, submitting, the form and the polling
\* cache unchanged.
C6_InvalidTradeRejectedClientSide ==
    [][(HandleOpen /\ (FieldMissing(form) \/ StopOnWrongSide(form)))
       => /\ error' # ""
          /\ (form.side = "BUY" /\ StopOnWrongSide(form) /\ AllNonZero(form))
               => error' = "SL must be below entry for BUY."
          /\ calls' = calls
          /\ submitting' = submitting
          /\ form' = form
          /\ cache' = cache /\ inflight' = inflight /\ issued' = issued]_vars

\* C6 witness: the spec's scenario (BUY, entry 100, sl 105) has been submitted
\* and rejected: the message is shown and nothing is in flight.
C6_Witness ==
    /\ form = [side |-> "BUY", entry |-> "100", sl |-> "105", tp |-> "110", notional |-> "300"]
    /\ error = "SL must be below entry for BUY."
    /\ ~submitting
    /\ \A i \in 1..Len(calls) : calls[i].op # "open"
    /\ inflight = {}

\* C7: when a write (open or close of a manual paper trade) returns, a fetch
\* of the selected user's positions key is issued in the same step; when it
\* fails, no fetch is issued.
C7_WriteTriggersRefetch ==
    [][\A i \in 1..Len(calls), resp \in Responses :
         (HandleOpenSettle(i, resp) \/ HandleCloseSettle(i, resp))
         => IF CallReturned(resp)
            THEN /\ issued' = issued + 1
                 /\ [id |-> issued', key |-> <<userId', "positions">>] \in inflight'
                 /\ cache'[<<userId', "positions">>].latest = issued'
            ELSE inflight' = inflight /\ issued' = issued /\ cache' = cache]_vars

\* C7 witness: an open-trade request returned and the re-fetch of positions it
\* issued is in flight as the latest request of the key.
C7_Witness ==
    /\ success = "Paper trade opened!"
    /\ ~submitting
    /\ [id |-> issued, key |-> <<userId, "positions">>] \in inflight
    /\ cache[<<userId, "positions">>].latest = issued

\* the counts the spec defines the win rate with
RECURSIVE CountWins(_)
CountWins(trades) ==
    IF trades = <<>> THEN 0
    ELSE (IF Head(trades).pnl # Null /\ Head(trades).pnl[1] > 0 THEN 1 ELSE 0)
         + CountWins(Tail(trades))

RECURSIVE SumPnl(_)
SumPnl(trades) ==
    IF trades = <<>> THEN 0
    ELSE IF Head(trades).pnl = Null THEN SumPnl(Tail(trades))
    ELSE Head(trades).pnl[1] + SumPnl(Tail(trades))

\* C8, as the spec states it: on the Positions page and on the Paper page the
\* displayed win rate is within [0, 100] (0..1000 tenths) and is 0 for the
\* empty collection, whatever the equity snapshot.
C8_WinRateInRange ==
    /\ positionsView.winRateText \in 0..1000
    /\ paperView.winRateText \in 0..1000
    /\ closedTrades = <<>> => positionsView.winRateText = 0 /\ paperView.winRateText = 0

\* C9, as the spec states it: on both pages the win rate is wins / total * 100
\* with total the number of closed signals of the collection and wins the
\* number of them with pnl > 0, and 0 when total = 0.
C9_WinRateFormula ==
    LET total == Len(closedTrades)
        expected == IF total = 0 THEN Ratio(0, 1) ELSE Ratio(CountWins(closedTrades) * 100, total)
    IN  /\ positionsView.winRate.num * expected.den = expected.num * positionsView.winRate.den
        /\ positionsView.winRateText = ToFixed1(expected)
        /\ paperView.winRateText = ToFixed1(expected)

\* C10: totalPnl is the sum of pnl over the collection with every null pnl
\* counted as 0: 0 for the empty collection, unchanged by trades whose pnl is
\* null, and 30 for pnl values [+50, -20].
C10_TotalPnlIsSum ==
    /\ positionsView.totalPnl = SumPnl(closedTrades)
    /\ closedTrades = <<>> => positionsView.totalPnl = 0
    /\ closedTrades = <<[pnl |-> Some(50)], [pnl |-> Some(-20)]>> => positionsView.totalPnl = 30

\* C10 witness: a collection with a win, a null pnl and a loss has been rendered.
C10_Witness ==
    /\ closedTrades = <<[pnl |-> Some(50)], [pnl |-> Null], [pnl |-> Some(-20)]>>
    /\ positionsView.totalPnl = 30

\* the rows of the levels table as a set
LevelRowSet ==
    {LevelRows(ticker, signals)[i] : i \in 1..Len(LevelRows(ticker, signals))}

\* the (current, level, result) triples the levels table computes
PctCases ==
    {<<r.current[1], r.signal.target[1], r.pctToTp[1]>> :
        r \in {x \in LevelRowSet : x.pctToTp # Null}}
    \cup
    {<<r.current[1], r.signal.stop_loss[1], r.pctToSl[1]>> :
        r \in {x \in LevelRowSet : x.pctToSl # Null}}

\* C11 as stated: percentToLevel(current, level) is 0 whenever current = 0;
\* otherwise it is (level - current) / current * 100 and it is positive
\* exactly when level > current.
C11_PercentToLevelSignConsistent ==
    \A c \in PctCases :
        LET current == c[1]
            level   == c[2]
            result  == c[3]
        IN  /\ current = 0 => RatEq(result, Ratio(0, 1))
            /\ current # 0 =>
                  /\ RatEq(result, Ratio((level - current) * 100, current))
                  /\ Positive(result) <=> level > current

\* C11 as amended: percentToLevel(current, level) is 0 whenever current = 0;
\* otherwise it is (level - current) / current * 100, which is positive
\* exactly when level > current for a positive current and exactly when
\* level < current for a negative current.
C11_PercentToLevel ==
    \A c \in PctCases :
        LET current == c[1]
            level   == c[2]
            result  == c[3]
        IN  /\ current = 0 => RatEq(result, Ratio(0, 1))
            /\ current # 0 => RatEq(result, Ratio((level - current) * 100, current))
            /\ current > 0 => (Positive(result) <=> level > current)
            /\ current < 0 => (Positive(result) <=> level < current)

\* at a price of 100 the table shows +10% to a target of 110 and a negative
\* percentage to a stop of 90
C11_Witness ==
    /\ ticker.BTC = Some(100)
    /\ \E c \in PctCases : c[2] = 110 /\ RatEq(c[3], Ratio(10, 1)) /\ Positive(c[3])
    /\ \E c \in PctCases : c[2] = 90 /\ RatEq(c[3], Ratio(-10, 1)) /\ ~Positive(c[3])

\* out is the selection, in input order, of exactly the elements of in that
\* satisfy Q
IsOrderedSelection(out, in, Q(_)) ==
    \E f \in [1..Len(out) -> 1..Len(in)] :
        /\ \A i, j \in 1..Len(out) : i < j => f[i] < f[j]
        /\ \A i \in 1..Len(out) : out[i] = in[f[i]]
        /\ {f[i] : i \in 1..Len(out)} = {j \in 1..Len(in) : Q(in[j])}

HasLevel(s) == s.entry_price # Null \/ s.stop_loss # Null \/ s.target # Null
TradeAction(s) == s.action \notin {"NO_TRADE", "HOLD"}

\* C13 as stated: predictionsFilter keeps a signal iff it carries a non-null
\* entry_price, stop_loss or target, has a non-null symbol and its action is
\* neither NO_TRADE nor HOLD; the output preserves the input order and holds
\* no signal that is not in the input.
C13_PredictionsFilterNonNullSymbol ==
    IsOrderedSelection(predictionsFilter(signals), signals,
        LAMBDA s : HasLevel(s) /\ s.symbol # Null /\ TradeAction(s))

\* C13 as amended: predictionsFilter keeps a signal iff it carries a non-null
\* entry_price, stop_loss or target, has a symbol that is neither null nor the
\* empty string and its action is neither NO_TRADE nor HOLD; the output
\* preserves the input order and holds no signal that is not in the input.
C13_PredictionsFilter ==
    IsOrderedSelection(predictionsFilter(signals), signals,
        LAMBDA s : HasLevel(s) /\ s.symbol \notin {Null, Some("")} /\ TradeAction(s))

\* a poll of a HOLD signal with all three levels followed by a SELL signal:
\* only the SELL signal is a prediction
C13_Witness ==
    /\ Len(signals) = 2
    /\ signals[1].action = "HOLD" /\ HasLevel(signals[1])
    /\ signals[2].action = "STRONG_SELL"
    /\ predictionsFilter(signals) = <<signals[2]>>

\* |entry - level| / entry * notional, as an exact number
AmountFormula(entry, level, notional) == Ratio(Abs(entry - level) * notional, entry)
Zero == Ratio(0, 1)

\* the (entry, level, notional, amount) cases on screen: risk and reward of
\* every card, and of the preview when it is rendered
AmountCases ==
    UNION {{<<Coalesce(positions[i].entry, 0), Coalesce(positions[i].sl, 0),
              Coalesce(positions[i].notional, 0), PositionCard(positions[i]).risk>>,
            <<Coalesce(positions[i].entry, 0), Coalesce(positions[i].tp, 0),
              Coalesce(positions[i].notional, 0), PositionCard(positions[i]).reward>>} :
           i \in 1..Len(positions)}
    \cup
    (IF RiskPreview(form).shown
     THEN {<<OrZero(parseFloat(form.entry)), OrZero(parseFloat(form.sl)),
             OrZero(parseFloat(form.notional)), RiskPreview(form).riskAmt>>}
     ELSE {})

\* the preview's potential profit, when its line is rendered
ProfitCases ==
    IF RiskPreview(form).shown /\ RiskPreview(form).profitShown
    THEN {<<OrZero(parseFloat(form.entry)), OrZero(parseFloat(form.tp)),
            OrZero(parseFloat(form.notional)), RiskPreview(form).profitAmt>>}
    ELSE {}

\* C12 as stated: riskAmount and rewardAmount equal |entry - stop| / entry *
\* notional (resp. with target) for every entry # 0 and are 0 in the guarded
\* case entry = 0, on the open-position cards and in the risk preview.
C12_AmountsForNonZeroEntry ==
    \A c \in AmountCases \cup ProfitCases :
        /\ c[1] # 0 => RatEq(c[4], AmountFormula(c[1], c[2], c[3]))
        /\ c[1] = 0 => RatEq(c[4], Zero)

\* C12 as amended: riskAmount and rewardAmount equal |entry - stop| / entry *
\* notional (resp. with target) for every entry > 0 and are 0 for every
\* entry <= 0, a missing or unparseable field counting as 0; the preview's
\* potential profit is that value only for a target > 0 and is 0 otherwise.
C12_Amounts ==
    /\ \A c \in AmountCases :
          /\ c[1] > 0 => RatEq(c[4], AmountFormula(c[1], c[2], c[3]))
          /\ c[1] <= 0 => RatEq(c[4], Zero)
    /\ \A c \in ProfitCases :
          /\ c[1] > 0 /\ c[2] > 0 => RatEq(c[4], AmountFormula(c[1], c[2], c[3]))
          /\ (c[1] <= 0 \/ c[2] <= 0) => RatEq(c[4], Zero)

\* entry 100, stop 95, target 110, notional 300, typed into the form and on a
\* card: a risk of 15 and a reward of 30 in both places
C12_Witness ==
    /\ form.entry = "100" /\ form.sl = "95" /\ form.tp = "110" /\ form.notional = "300"
    /\ RatEq(RiskPreview(form).riskAmt, Ratio(15, 1))
    /\ RatEq(RiskPreview(form).profitAmt, Ratio(30, 1))
    /\ Len(positions) = 1
    /\ positions[1] = [entry |-> Some(100), sl |-> Some(95), tp |-> Some(110), notional |-> Some(300)]
    /\ RatEq(PositionCard(positions[1]).risk, Ratio(15, 1))
    /\ RatEq(PositionCard(positions[1]).reward, Ratio(30, 1))

\* the calendar as the almanac has it: the Gregorian leap rule, the lengths
\* of the months, and the weekday by Zeller's congruence (0 = Sunday)
IsLeapYear(y) == (y % 4 = 0 /\ y % 100 # 0) \/ y % 400 = 0
TrueDaysInMonth(y, m) ==
    IF m \in {4, 6, 9, 11} THEN 30
    ELSE IF m = 2 THEN (IF IsLeapYear(y) THEN 29 ELSE 28)
    ELSE 31
TrueWeekday(y, m, d) ==
    LET mm == IF m < 3 THEN m + 12 ELSE m
        yy == IF m < 3 THEN y - 1 ELSE y
        k  == yy % 100
        j  == yy \div 100
        h  == (d + ((13 * (mm + 1)) \div 5) + k + (k \div 4) + (j \div 4) + 5 * j) % 7
    IN  (h + 6) % 7

\* the grid on screen and its shape
ShownGrid == buildMonthGrid(selectedYear, selectedMonth)
GridShown == CalendarBody(calendar, calendarLoading).grid
LeadingBlanks(cells) ==
    Cardinality({i \in 1..Len(cells) : \A j \in 1..i : cells[j] = Blank})
TrailingBlanks(cells) ==
    Cardinality({i \in 1..Len(cells) : \A j \in i..Len(cells) : cells[j] = Blank})
DayCells(cells) == SelectSeq(cells, LAMBDA c : c # Blank)

\* C14: month-grid invariant. For the year and the month selected, the grid
\* has a multiple of 7 cells, its non-blank cells are exactly 1..N in
\* ascending order with N the true number of days of that month (29 for a
\* leap-year February), its leading blanks are as many as the weekday
\* (0 = Sunday) of day 1, and its trailing blanks are fewer than 7.
C14_MonthGridInvariant ==
    GridShown =>
        LET n == TrueDaysInMonth(selectedYear, selectedMonth)
        IN  /\ selectedMonth \in 1..12
            /\ Len(ShownGrid) % 7 = 0
            /\ DayCells(ShownGrid) = [d \in 1..n |-> d]
            /\ LeadingBlanks(ShownGrid) = TrueWeekday(selectedYear, selectedMonth, 1)
            /\ TrailingBlanks(ShownGrid) < 7
            /\ Len(ShownGrid) = LeadingBlanks(ShownGrid) + n + TrailingBlanks(ShownGrid)

\* February of the leap year 2024 on screen: 4 blanks, 29 days, 2 blanks
C14_Witness ==
    /\ GridShown
    /\ selectedYear = 2024 /\ selectedMonth = 2
    /\ LeadingBlanks(ShownGrid) = 4
    /\ Len(DayCells(ShownGrid)) = 29
    /\ Len(ShownGrid) = 35

\* C15 as stated: the grid of March 2024 has 2 leading blanks, 31 day cells
\* and 35 cells in all.
C15_March2024TwoBlanks ==
    (GridShown /\ selectedYear = 2024 /\ selectedMonth = 3) =>
        /\ LeadingBlanks(ShownGrid) = 2
        /\ Len(DayCells(ShownGrid)) = 31
        /\ Len(ShownGrid) = 35

\* C15 as amended: the grid of March 2024 (which starts on a Friday, weekday
\* 5) has 5 leading blanks, 31 day cells and 42 cells in all.
C15_March2024 ==
    (GridShown /\ selectedYear = 2024 /\ selectedMonth = 3) =>
        /\ LeadingBlanks(ShownGrid) = 5
        /\ Len(DayCells(ShownGrid)) = 31
        /\ Len(ShownGrid) = 42

\* March 2024 on screen, its first day in the sixth column
C15_Witness ==
    /\ GridShown
    /\ selectedYear = 2024 /\ selectedMonth = 3
    /\ ShownGrid[6] = 1
    /\ TrueWeekday(2024, 3, 1) = 5

RECURSIVE DecimalValue(_)
\* the number a sequence of decimal digits writes
DecimalValue(chars) ==
    IF chars = <<>> THEN 0
    ELSE 10 * DecimalValue(SubSeq(chars, 1, Len(chars) - 1)) + (chars[Len(chars)] - 48)

\* the ISO date of a record lies in month m of year y
FallsInMonth(rec, y, m) ==
    /\ DecimalValue(SubSeq(rec.date, 1, 4)) = y
    /\ DecimalValue(SubSeq(rec.date, 6, 7)) = m

\* the day records of the calendar on screen and the cells of its grid
ShownDays == calendar[1].days
ShownCells == GridCells(ShownDays, selectedYear, selectedMonth)
CellsShowing(cells, rec) == {idx \in 1..Len(cells) : cells[idx].data = Some(rec)}
\* no later record of the collection has the date of record i
LastOfItsDate(days, i) == \A j \in 1..Len(days) : j > i => days[j].date # days[i].date

\* C16 as stated: calendar lookup invariant. Every day record whose date falls
\* in the displayed month appears in exactly one grid cell, matched by exact
\* equality with the cell's zero-padded YYYY-MM-DD key; a cell whose key has no
\* record is an empty day cell; no record of another month appears.
C16_EveryRecordInOneCell ==
    GridShown =>
        LET days  == ShownDays
            cells == ShownCells
        IN  /\ \A i \in 1..Len(days) :
                  FallsInMonth(days[i], selectedYear, selectedMonth) =>
                      /\ Cardinality(CellsShowing(cells, days[i])) = 1
                      /\ \A idx \in CellsShowing(cells, days[i]) : cells[idx].key = days[i].date
            /\ \A idx \in 1..Len(cells) :
                  /\ (\A i \in 1..Len(days) : days[i].date # cells[idx].key)
                         => cells[idx].data = Null
                  /\ cells[idx].data # Null =>
                         FallsInMonth(cells[idx].data[1], selectedYear, selectedMonth)

\* C16 as amended: calendar lookup invariant. Every day record whose date
\* falls in the displayed month and that is the last record of its date in the
\* collection appears in exactly one grid cell, matched by exact equality with
\* the cell's zero-padded YYYY-MM-DD key, and every cell shows such a record or
\* none; a cell whose key has no record is an empty day cell; no record of
\* another month appears.
C16_CalendarLookup ==
    GridShown =>
        LET days  == ShownDays
            cells == ShownCells
        IN  /\ \A i \in 1..Len(days) :
                  (FallsInMonth(days[i], selectedYear, selectedMonth) /\ LastOfItsDate(days, i)) =>
                      /\ Cardinality(CellsShowing(cells, days[i])) = 1
                      /\ \A idx \in CellsShowing(cells, days[i]) : cells[idx].key = days[i].date
            /\ \A idx \in 1..Len(cells) :
                  /\ (\A i \in 1..Len(days) : days[i].date # cells[idx].key)
                         => cells[idx].data = Null
                  /\ cells[idx].data # Null =>
                         /\ FallsInMonth(cells[idx].data[1], selectedYear, selectedMonth)
                         /\ \E i \in 1..Len(days) :
                               LastOfItsDate(days, i) /\ days[i] = cells[idx].data[1]

\* January 2026 on screen with a record of 31 January and one of 31 December
\* 2025: the last day cell shows the first, no cell shows the second
C16_Witness ==
    /\ GridShown
    /\ selectedYear = 2026 /\ selectedMonth = 1
    /\ Len(ShownDays) = 2
    /\ ShownDays[1].date = dateKey(2026, 1, 31)
    /\ ShownDays[2].date = dateKey(2025, 12, 31)
    /\ \E idx \in 1..Len(ShownCells) :
          ShownCells[idx].dayNum = 31 /\ ShownCells[idx].data = Some(ShownDays[1])
    /\ CellsShowing(ShownCells, ShownDays[2]) = {}

\* a multiplier, kept in tenths, as the cell would print it
MultiplierText(m) ==
    CASE m = 10 -> "1.0x"
      [] m = 15 -> "1.5x"
      [] OTHER  -> "?"

\* C17: in the month grid the multiplier shown for a day is the multiplier
\* field of its day record, never a value recomputed on the client: for every
\* day cell with a record, the text shown equals record.multiplier.
C17_MultiplierVerbatim ==
    GridShown =>
        LET cells == ShownCells
        IN  \A idx \in 1..Len(cells) :
                cells[idx].data # Null =>
                    cells[idx].multiplier = MultiplierText(cells[idx].data[1].multiplier)

\* the view of the calendar card
ShownBody == CalendarBody(calendar, calendarLoading)

\* C19: when the calendar source reports unavailable, the card shows the
\* unavailable panel with the reason (the default text when none is given) and
\* the paths tried when given, and no grid; the loading panel, the unavailable
\* panel and the grid are never on screen together, and the grid is on screen
\* only for a calendar that is loaded and available.
C19_UnavailableShowsReasonNoGrid ==
    /\ (calendar # Null /\ calendar[1].unavailable) =>
          /\ ShownBody.unavailablePanel
          /\ ShownBody.reason = Coalesce(calendar[1].reason, "Calendar unavailable")
          /\ ShownBody.tried = Coalesce(calendar[1].tried_paths, <<>>)
          /\ ~ShownBody.grid
          /\ ~ShownBody.loadingPanel
    /\ Cardinality({panel \in {"loadingPanel", "unavailablePanel", "grid"} : ShownBody[panel]}) <= 1
    /\ ShownBody.grid => (calendar # Null /\ ~calendarLoading /\ ~calendar[1].unavailable)

\* an unavailable calendar that names a reason and two paths and still
\* carries a day: the panel shows both, and there is no grid
C19_Witness ==
    /\ calendar # Null
    /\ calendar[1].unavailable
    /\ calendar[1].reason = Some("no birth data")
    /\ Len(calendar[1].days) > 0
    /\ ShownBody.unavailablePanel
    /\ ShownBody.reason = "no birth data"
    /\ ShownBody.tried = <<"a.json", "b.json">>
    /\ ~ShownBody.grid

\* the groups of the list variant of the calendar card
ShownGroups == GroupedList(calendar, calendarLoading)
\* the year and the month a YYYY-MM key writes
KeyYear(key) == DecimalValue(SubSeq(key, 1, 4))
KeyMonth(key) == DecimalValue(SubSeq(key, 6, 7))

\* C18: groupDaysByMonth partitions the day collection by the first 7
\* characters (YYYY-MM) of date: every input day is in exactly one group, all
\* days of a group share the group's key as prefix, the keys are distinct and
\* ascending, a group holds its days in input order, and its label is the
\* month name and the year of its key.
C18_GroupDaysByMonth ==
    (calendar # Null /\ ~calendarLoading) =>
        LET days   == calendar[1].days
            groups == ShownGroups
        IN  /\ \A i \in 1..Len(days) :
                  Cardinality({g \in 1..Len(groups) :
                      \E k \in 1..Len(groups[g].days) : groups[g].days[k] = days[i]}) = 1
            /\ \A g \in 1..Len(groups) :
                  /\ Len(groups[g].days) > 0
                  /\ \A k \in 1..Len(groups[g].days) :
                        SubSeq(groups[g].days[k].date, 1, 7) = groups[g].key
                  /\ IsOrderedSelection(groups[g].days, days,
                        LAMBDA day : SubSeq(day.date, 1, 7) = groups[g].key)
                  /\ groups[g].label = [month |-> MONTH_NAMES[KeyMonth(groups[g].key)],
                                        year  |-> Num(KeyYear(groups[g].key))]
            /\ \A g, h \in 1..Len(groups) :
                  g < h => \/ KeyYear(groups[g].key) < KeyYear(groups[h].key)
                           \/ /\ KeyYear(groups[g].key) = KeyYear(groups[h].key)
                              /\ KeyMonth(groups[g].key) < KeyMonth(groups[h].key)

\* a calendar that lists 1 October 2026 before 31 December 2025: the groups
\* are December 2025, then October 2026
C18_Witness ==
    /\ calendar # Null /\ ~calendarLoading
    /\ Len(calendar[1].days) = 2
    /\ calendar[1].days[1].date = dateKey(2026, 10, 1)
    /\ calendar[1].days[2].date = dateKey(2025, 12, 31)
    /\ Len(ShownGroups) = 2
    /\ ShownGroups[1].label = [month |-> "December", year |-> Num(2025)]
    /\ ShownGroups[2].label = [month |-> "October", year |-> Num(2026)]
    /\ ShownGroups[2].days = <<calendar[1].days[1]>>

\* C20: marker ordering invariant. Whatever the signals input, its order and
\* its timestamp strings, the marker list handed to the renderer is sorted
\* ascending by time.
C20_MarkersSortedByTime ==
    \A i, j \in 1..Len(markers) : i < j => Le(markers[i].time, markers[j].time)

(* ------------------------ C21: marker content --------------------------- *)
BuyActions == {"BUY", "STRONG_BUY", "WEAK_BUY"}
SellActions == {"SELL", "STRONG_SELL", "WEAK_SELL"}

\* the time t is the timestamp truncated to whole seconds
TruncatedToSeconds(t, timestamp) ==
    LET ms == DateGetTime(timestamp)
    IN  IF ms.nan THEN t.nan
        ELSE ~t.nan /\ t.v * 1000 <= ms.v /\ ms.v < (t.v + 1) * 1000

\* the marker m is the one the specification describes for the signal s
MarkerDescribes(m, s) ==
    /\ TruncatedToSeconds(m.time, s.timestamp)
    /\ s.action \in BuyActions => m.position = "belowBar"
    /\ s.action \in SellActions => m.position = "aboveBar"
    /\ m.text = IF s.result # Null THEN s.result[1] ELSE ActionLabel(s.action)

\* the markers ms are, one for one, the markers of the signals of sigs that
\* satisfy Q and of no other signal
OneMarkerPer(ms, sigs, Q(_)) ==
    LET kept == {i \in 1..Len(sigs) : Q(sigs[i])}
    IN  /\ Len(ms) = Cardinality(kept)
        /\ \E f \in [1..Len(ms) -> 1..Len(sigs)] :
              /\ \A i \in 1..Len(ms) : f[i] \in kept /\ MarkerDescribes(ms[i], sigs[f[i]])
              /\ \A i, j \in 1..Len(ms) : i # j => f[i] # f[j]

\* C21 as stated: the marker list has exactly one marker per signal whose
\* entry_price is present and none for other signals, each with the
\* truncated time, the side of the bar and the text of its signal.
C21_OneMarkerPerPricedSignal ==
    OneMarkerPer(markers, chartSignals, LAMBDA s : s.entry_price # Null)

\* C21 amended: the marker list has exactly one marker per signal whose
\* entry_price is a non-zero number and whose timestamp and action are
\* non-empty, and none for other signals; each marker has the time of its
\* signal truncated to whole seconds, sits below the bar for a buy and above
\* it for a sell, and shows the closing result when present, otherwise the
\* action label.
C21_MarkerContent ==
    OneMarkerPer(markers, chartSignals,
                 LAMBDA s : /\ s.entry_price # Null /\ s.entry_price # Some(0)
                            /\ s.timestamp # "" /\ s.action # "")

\* two signals, a closed sell at 2.999 s and a priced signal without a
\* timestamp: one marker, above the bar at second 2, reading WIN
C21_Witness ==
    /\ Len(chartSignals) = 2
    /\ chartSignals[1].timestamp = "1970-01-01T00:00:02.999Z"
    /\ chartSignals[1].action = "STRONG_SELL"
    /\ chartSignals[1].result = Some("WIN")
    /\ chartSignals[2].timestamp = "" /\ chartSignals[2].entry_price = Some(100)
    /\ Len(markers) = 1
    /\ markers[1].time = Num(2) /\ markers[1].position = "aboveBar"
    /\ markers[1].text = "WIN"

(* ------------------------ C22..C26: chart lifecycle --------------------- *)
LiveCharts == {c \in 1..Len(charts) : ~charts[c].removed}
Unmounted == ~containerRef /\ chartProps.rev > 0

\* C22: at every moment at most one chart instance that has not been removed
\* exists for the container, under any interleaving of effect runs, effect
\* cleanups and import resolutions.
C22_AtMostOneChart == Cardinality(LiveCharts) <= 1

\* C23: after the component is unmounted every ResizeObserver it created has
\* been disconnected and every chart instance it created has been removed.
C23_NothingSurvivesUnmount ==
    Unmounted =>
        /\ \A o \in 1..Len(observers) : observers[o].disconnected
        /\ LiveCharts = {}

\* C25: on every chart of the mounted component the price lines are three per
\* position of the latest positions input (entry dotted, stop dashed red,
\* target dashed green) and no others.
C25_ThreeLinesPerPosition ==
    containerRef =>
        \A c \in LiveCharts :
            /\ Len(charts[c].lines) = 3 * Len(chartProps.positions)
            /\ \A i \in 1..Len(chartProps.positions) :
                  /\ charts[c].lines[3 * i - 2].price = chartProps.positions[i].entry
                  /\ charts[c].lines[3 * i - 2].lineStyle = "Dotted"
                  /\ charts[c].lines[3 * i - 1].price = chartProps.positions[i].sl
                  /\ charts[c].lines[3 * i - 1].lineStyle = "Dashed"
                  /\ charts[c].lines[3 * i - 1].color = "#f85149"
                  /\ charts[c].lines[3 * i].price = chartProps.positions[i].tp
                  /\ charts[c].lines[3 * i].lineStyle = "Dashed"
                  /\ charts[c].lines[3 * i].color = "#3fb950"

\* the one chart shows the inputs of the latest render
ShowsLatest ==
    /\ Cardinality(LiveCharts) = 1
    /\ \A c \in LiveCharts :
          /\ charts[c].candles = chartProps.candles
          /\ charts[c].markers \in SortOutcomes(UnsortedMarkers(chartSignals))
          /\ charts[c].lines = PriceLines(chartProps.positions)

\* C26: if the component stays mounted with a non-empty candles input and
\* the inputs stop changing, then eventually exactly one chart instance
\* exists and it shows the latest candles, markers and price lines; while
\* candles is empty no chart instance is created.
C26_EventuallyOneCurrentChart ==
    /\ <>[](containerRef /\ chartProps.candles # <<>>) => <>[]ShowsLatest
    /\ [][chartProps.candles = <<>> /\ chartProps'.candles = <<>> => Len(charts') = Len(charts)]_vars

(* ------------------------- C24: fetch loops ----------------------------- *)
InFlightFor(k) == {r \in inflight : r.key = k}

OpenInFlight == \E i \in 1..Len(calls) : calls[i].op = "open"

\* C27: submitting is true exactly while an accepted open-trade request is in
\* flight and is false once it settles; on success the success message is set
\* and the form is reset to its defaults; on failure the error message is
\* set, the form is left unchanged and no positions re-fetch is issued; the
\* error and success messages are never both non-empty.
C27_HandleOpenLifecycle ==
    /\ [](submitting <=> OpenInFlight)
    /\ [](error = "" \/ success = "")
    /\ [][\A i \in 1..Len(calls), resp \in Responses :
            HandleOpenSettle(i, resp)
            => /\ submitting /\ ~submitting'
               /\ IF CallReturned(resp)
                  THEN /\ success' = "Paper trade opened!"
                       /\ form' = [side |-> "BUY", entry |-> "", sl |-> "", tp |-> "", notional |-> ""]
                  ELSE /\ error' = "Failed to open trade." /\ success' = ""
                       /\ form' = form
                       /\ inflight' = inflight /\ issued' = issued]_vars

\* an accepted trade was sent and the request failed: the error is shown, the
\* fields still hold what was typed, nothing was re-fetched
C27_Witness ==
    /\ error = "Failed to open trade."
    /\ ~submitting /\ ~OpenInFlight
    /\ form = [side |-> "BUY", entry |-> "100", sl |-> "95", tp |-> "110", notional |-> "300"]
    /\ issued = 0

(* ------------------------- C28: close by index -------------------------- *)
\* C28: whatever position the DELETE request for index i removes, it is the
\* position that was displayed at row i when the close button was pressed,
\* even if the backend's list changed since the last successful positions
\* poll.
C28_CloseRemovesDisplayedRow ==
    closed.removed # Null => closed.removed = closed.wanted

(* ---------------------- C29: registration status ----------------------- *)
\* C29: status moves only idle/success/error -> loading -> success or error;
\* every register call eventually leaves loading; on a 2xx response with a
\* JSON body status becomes success, the form is reset to empty and the users
\* list is re-fetched; on a non-2xx response or a network or parse failure
\* status becomes error, the error message is set, the form is left unchanged
\* and the users list is not re-fetched.
C29_RegistrationStatusMachine ==
    /\ [][status' # status =>
            \/ status \in {"idle", "success", "error"} /\ status' = "loading"
            \/ status = "loading" /\ status' \in {"success", "error"}]_vars
    /\ (status = "loading") ~> (status # "loading")
    /\ [][\A resp \in Responses, body \in RegisterBodies :
            HandleRegisterSettle(resp, body)
            => /\ status = "loading"
               /\ IF CallReturned(resp)
                  THEN /\ status' = "success"
                       /\ \A key \in RegisterKeys : regForm'[key] = <<>>
                       /\ usersMutates' = usersMutates + 1
                  ELSE /\ status' = "error"
                       /\ errMsg' # ""
                       /\ regForm' = regForm
                       /\ usersMutates' = usersMutates]_vars

\* a registration succeeded and a second one, typed afterwards, was refused
\* by the backend: its message is shown and the fields are still filled
C29_Witness ==
    /\ status = "error" /\ errMsg = "username taken"
    /\ usersMutates = 1
    /\ registerCall = Null
    /\ regForm = [username |-> <<97, 108, 45, 98>>, display_name |-> <<65, 108, 32, 66>>,
                  wallet |-> <<48>>, private_key |-> <<49>>]

(* ------------------------- C30: re-provisioning ------------------------- *)
Provisioned == {u \in ProvisionNames : botEnv[u] # Null}
EntriesOf(list, u) == {i \in 1..Len(list) : list[i].id = u}
Others(list, u) == SelectSeq(list, LAMBDA e : e.id # u)

\* the lines of an .env that assign PAPER_TRADING
PaperTradingLines(env) == {i \in 1..Len(env) : env[i].prefix = "" /\ env[i].key = "PAPER_TRADING"}

\* C30: after any sequence of successful runs users.json holds exactly one
\* entry per provisioned username (a re-run replaces the entry), the written
\* .env always has PAPER_TRADING=true, and no other value, whatever the
\* template's value, and a run for one username leaves the entries and the
\* .env of the other users as they were.
C30_ReprovisionIdempotent ==
    /\ [](\A u \in Provisioned : Cardinality(EntriesOf(usersJson, u)) = 1)
    /\ [](\A u \in Provisioned :
            /\ PaperTradingLines(botEnv[u][1]) # {}
            /\ \A i \in PaperTradingLines(botEnv[u][1]) : botEnv[u][1][i].value = "true")
    /\ [][\E u \in ProvisionNames :
            /\ botEnv'[u] # Null /\ usersJson'[Len(usersJson')].id = u
            /\ Others(usersJson', u) = Others(usersJson, u)
            /\ \A v \in ProvisionNames \ {u} : botEnv'[v] = botEnv[v]]_vars

\* bob was provisioned twice, last from a template that says
\* PAPER_TRADING=false on two lines: one entry for bob after the default
\* user's, and both lines read true
C30_Witness ==
    /\ Len(usersJson) = 2
    /\ usersJson[1].id = "default" /\ usersJson[1].name = "Default"
    /\ usersJson[2] = [id |-> "bob", name |-> "Bob Smith",
                       bot_dir |-> <<"/home", "bob", "astro-bot">>, color |-> "#79c0ff"]
    /\ botEnv["bob"] # Null
    /\ Len(botEnv["bob"][1]) = 5
    /\ botEnv["bob"][1][1] = EnvLine("", "PAPER_TRADING", "true")
    /\ botEnv["bob"][1][3] = EnvLine("", "PAPER_TRADING", "true")
    /\ botEnv["bob"][1][4] = EnvLine("", "HYPERLIQUID_WALLET_ADDRESS", "0xB")
    /\ "bob" \in linuxUsers /\ <<"astrobot", "bob">> \in services

====
